---------------------------- MODULE Spec2Model ----------------------------
(***************************************************************************)
(* Model of the audio pipeline orchestrator (AudioPipeline.ts), the        *)
(* content script that drives it (handlePlay / SET_SETTINGS), the message  *)
(* ports of the three AudioWorklet stages, and the parts of the Web Audio  *)
(* and WebGPU environment the orchestrator depends on.                     *)
(*                                                                         *)
(* Every `await` of the source is a suspension point: an operation is a    *)
(* record with a `pc` naming the await it is suspended at, and one action  *)
(* runs the code between two awaits atomically. JavaScript never           *)
(* interleaves inside such a segment, and nothing in the source prevents   *)
(* another handler from running while an operation is suspended.           *)
(***************************************************************************)
EXTENDS Integers, Sequences, FiniteSets, TLC

(***************************************************************************)
(* Bounds                                                                  *)
(***************************************************************************)
\* number of handlePlay / disconnect calls made over one behaviour
MaxCalls == 2
\* number of SET_SETTINGS deliveries over one behaviour
MaxDeliveries == 2
\* number of environment faults over one behaviour (a constructor or addModule
\* that throws, a GPU request that fails, the extension context going away)
MaxFaults == 1

Elements == {"A", "B"}
NoElement == "none"

StageKinds == {"ups", "ext", "spa"}
NodeKinds == {"src", "ups", "ext", "spa", "mk", "gain", "ana"}

CallIds == 1 .. MaxCalls
\* an AudioContext is identified by the call that constructed it; 0 is null
CtxIds == CallIds
\* a node is identified by the call that constructed it and its kind
NullNode == <<>>
AllNodes == CallIds \X NodeKinds
StageNodes == CallIds \X StageKinds

(***************************************************************************)
(* Config (AudioSettings). hrtfIntensity is an optional field: the set is  *)
(* empty when the Config does not carry it (DEFAULT_SETTINGS and the       *)
(* presets do not), a singleton otherwise.                                 *)
(***************************************************************************)
NoSettings == [none |-> TRUE]

DEFAULT_SETTINGS ==
  [enabled |-> TRUE, hiResEnabled |-> FALSE, spatialEnabled |-> FALSE,
   useGPU |-> FALSE, lowLatencyMode |-> FALSE, masterVolume |-> 100,
   upsampling |-> [enabled |-> FALSE, targetSampleRate |-> 48000, quality |-> "linear"],
   frequencyExtension |-> [enabled |-> FALSE, maxFrequency |-> 24000, intensity |-> 30],
   spatialAudio |-> [enabled |-> FALSE, mode |-> "off", width |-> 50, depth |-> 30,
                     height |-> 20, hrtfIntensity |-> {}]]

\* DEFAULT_SETTINGS overlaid with PRESETS.music
MusicSettings ==
  [enabled |-> TRUE, hiResEnabled |-> TRUE, spatialEnabled |-> TRUE,
   useGPU |-> FALSE, lowLatencyMode |-> FALSE, masterVolume |-> 100,
   upsampling |-> [enabled |-> TRUE, targetSampleRate |-> 96000, quality |-> "sinc"],
   frequencyExtension |-> [enabled |-> TRUE, maxFrequency |-> 32000, intensity |-> 50],
   spatialAudio |-> [enabled |-> TRUE, mode |-> "stereo-wide", width |-> 60, depth |-> 40,
                     height |-> 30, hrtfIntensity |-> {}]]

\* PRESETS.gaming with the accelerator switched on and an explicit HRTF intensity
GamingGpuSettings ==
  [enabled |-> TRUE, hiResEnabled |-> FALSE, spatialEnabled |-> TRUE,
   useGPU |-> TRUE, lowLatencyMode |-> TRUE, masterVolume |-> 100,
   upsampling |-> [enabled |-> TRUE, targetSampleRate |-> 48000, quality |-> "linear"],
   frequencyExtension |-> [enabled |-> FALSE, maxFrequency |-> 20000, intensity |-> 0],
   spatialAudio |-> [enabled |-> TRUE, mode |-> "atmos", width |-> 100, depth |-> 100,
                     height |-> 80, hrtfIntensity |-> {8}]]

Configs == {DEFAULT_SETTINGS, MusicSettings, GamingGpuSettings}

(***************************************************************************)
(* The AudioWorkletProcessors: their settings and their port.onmessage.    *)
(* Numbers that the source holds as fractions are kept as integers:        *)
(* intensity in 1/100 (the orchestrator sends intensity / 100, the         *)
(* processor's own default is 50), gains in 1/10000.                       *)
(* seq is not a field of the source: it records which delivery a message   *)
(* was derived from and the last one a processor applied (-1: none).       *)
(***************************************************************************)
GainNodes == CallIds \X {"mk", "gain"}
UnityGain == 10000
NoBlock == [none |-> TRUE]

UpsamplerDefaults ==
  [enabled |-> TRUE, targetSampleRate |-> 96000, quality |-> "sinc",
   lowLatencyMode |-> FALSE, seq |-> -1]
SpectralExtenderDefaults ==
  [enabled |-> FALSE, maxFrequency |-> 24000, intensity |-> 5000, seq |-> -1]
SpatialDefaults ==
  [enabled |-> FALSE, mode |-> "stereo-wide", width |-> 50, depth |-> 30, height |-> 20,
   hrtfIntensity |-> 6, lowLatencyMode |-> FALSE, seq |-> -1]

StageDefaults(k) == IF k = "ups" THEN UpsamplerDefaults
                    ELSE IF k = "ext" THEN SpectralExtenderDefaults ELSE SpatialDefaults

\* a ?? b, for a field that the message may not carry
Nullish(opt, cur) == IF opt = {} THEN cur ELSE CHOOSE v \in opt : TRUE

UpsamplerOnMessage(st, m) ==
  [enabled |-> m.enabled, targetSampleRate |-> m.targetSampleRate,
   quality |-> m.quality, lowLatencyMode |-> m.lowLatencyMode, seq |-> m.seq]

SpectralExtenderOnMessage(st, m) ==
  [enabled |-> m.enabled, maxFrequency |-> m.maxFrequency, intensity |-> m.intensity,
   seq |-> m.seq]

SpatialOnMessage(st, m) ==
  [enabled |-> m.enabled, mode |-> m.mode, width |-> m.width, depth |-> m.depth,
   height |-> m.height, hrtfIntensity |-> Nullish(m.hrtfIntensity, st.hrtfIntensity),
   lowLatencyMode |-> m.lowLatencyMode, seq |-> m.seq]

\* a processor that drops the message
IgnoreMessage(k, st, m) == st

\* port.onmessage of the processor of a stage of kind k
OnMessage(k, st, m) == IF k = "ups" THEN UpsamplerOnMessage(st, m)
                       ELSE IF k = "ext" THEN SpectralExtenderOnMessage(st, m)
                       ELSE SpatialOnMessage(st, m)

(***************************************************************************)
(* updateSettings(settings): the messages it posts and the gains it sets.  *)
(***************************************************************************)
HiResActive(s) == s.enabled /\ s.hiResEnabled
SpatialActive(s) == s.enabled /\ s.spatialEnabled

UpsamplerMessage(s, p, q) ==
  [type |-> "updateSettings", enabled |-> HiResActive(s) /\ s.upsampling.enabled,
   targetSampleRate |-> s.upsampling.targetSampleRate, quality |-> s.upsampling.quality,
   lowLatencyMode |-> s.lowLatencyMode, useGPU |-> s.useGPU /\ p.gpuActive, seq |-> q]

SpectralExtenderMessage(s, p, q) ==
  [type |-> "updateSettings", enabled |-> HiResActive(s) /\ s.frequencyExtension.enabled,
   maxFrequency |-> s.frequencyExtension.maxFrequency,
   intensity |-> s.frequencyExtension.intensity,
   lowLatencyMode |-> s.lowLatencyMode, useGPU |-> s.useGPU /\ p.gpuActive, seq |-> q]

SpatialMessage(s, p, q) ==
  [type |-> "updateSettings", enabled |-> SpatialActive(s) /\ s.spatialAudio.enabled,
   mode |-> s.spatialAudio.mode, width |-> s.spatialAudio.width,
   depth |-> s.spatialAudio.depth, height |-> s.spatialAudio.height,
   hrtfIntensity |-> s.spatialAudio.hrtfIntensity,
   lowLatencyMode |-> s.lowLatencyMode, useGPU |-> s.useGPU /\ p.gpuActive, seq |-> q]

StageMessage(k, s, p, q) == IF k = "ups" THEN UpsamplerMessage(s, p, q)
                            ELSE IF k = "ext" THEN SpectralExtenderMessage(s, p, q)
                            ELSE SpatialMessage(s, p, q)

\* the target of gainNode.gain
MasterVolume(s) == IF s.enabled THEN s.masterVolume * 100 ELSE 0

\* the target of makeupGainNode.gain
MakeupGain(s) ==
  UnityGain
  + (IF HiResActive(s) /\ s.frequencyExtension.enabled
     THEN 45 * s.frequencyExtension.intensity ELSE 0)
  + (IF SpatialActive(s) /\ s.spatialAudio.enabled
     THEN IF s.spatialAudio.mode \in {"surround-71", "atmos"} THEN 1500
          ELSE IF s.spatialAudio.mode = "stereo-wide" THEN 800 ELSE 0
     ELSE 0)

VARIABLES
  pl,                 \* the fields of the AudioPipeline instance
  connectedElements,  \* module-level WeakMap: element -> context (0: no entry)
  pipeline,           \* content script: has `pipeline` been created
  currentSettings,    \* content script: last delivered Config
  ops,                \* call id -> the operation started by that call
  calls,              \* number of calls started so far
  deliveries,         \* number of SET_SETTINGS messages handled so far
  extValid,           \* chrome.runtime is still usable
  ctxState,           \* context id -> "none" | "running" | "closing" | "closed"
  ctxModules,         \* context id -> stage modules registered by addModule
  nodeCtx,            \* node -> context it was created in (0: not created)
  edges,              \* set of <<from node, to>>; to is a node or <<ctx, "dest">>
  gpuAlive,           \* GPUDevices acquired and not destroyed
  gpuCount,           \* number of GPUDevices acquired so far
  gpuPending,         \* initWebGPU calls suspended at requestAdapter / requestDevice
  navigatorGpu,       \* 'gpu' in navigator
  faults,             \* environment faults so far
  proc,               \* stage node -> settings of its AudioWorkletProcessor
  port,               \* stage node -> messages posted to its port, not yet handled
  gainParam,          \* gain / makeup gain node -> target of its gain AudioParam
  lastBlock,          \* the settings each stage used for the block rendered in the last step
  dsp                 \* the signal-processing state exercised by the stage specifications

vars == <<pl, connectedElements, pipeline, currentSettings, ops, calls, deliveries,
          extValid, ctxState, ctxModules, nodeCtx, edges, gpuAlive, gpuCount, gpuPending,
          navigatorGpu, faults, proc, port, gainParam, lastBlock, dsp>>

\* what connect() and disconnect() never touch
stageVars == <<navigatorGpu, proc, port, gainParam, dsp>>

NodeFields == {"sourceNode", "upsamplerNode", "spectralExtenderNode", "spatialNode",
               "makeupGainNode", "gainNode", "analyserNode"}

\* AudioPipeline field initialisers. gpuRequested is not a field of the source: it
\* records that updateSettings called initWebGPU since disconnect() last finished.
NewPipeline ==
  [audioContext |-> 0, sourceNode |-> NullNode, gainNode |-> NullNode,
   makeupGainNode |-> NullNode, upsamplerNode |-> NullNode,
   spectralExtenderNode |-> NullNode, spatialNode |-> NullNode,
   analyserNode |-> NullNode, frequencyData |-> FALSE, isConnected |-> FALSE,
   currentElement |-> NoElement, settings |-> NoSettings, gpuDevice |-> 0,
   gpuActive |-> FALSE, workletsLoaded |-> FALSE, gpuRequested |-> FALSE]

(* An operation: kind is "play" (handlePlay calling connect) or "disc" (a   *)
(* direct disconnect call); pc the await it is suspended at; elem the      *)
(* element of connect; i and loaded the loop index and loadedCount of      *)
(* loadWorklets; on the context the pending close() or addModule() was     *)
(* called on and rej whether that close() rejects; fresh, whether the      *)
(* operation has not been resumed since its call. Three fields are not in  *)
(* the source: prevCtx and prevNodes record the context and the nodes the   *)
(* pipeline held when the call was made (for connect: if it was connected), *)
(* can the stages whose node the context would have constructed when the   *)
(* chain was built.                                                        *)
IdleOp == [kind |-> "none", pc |-> "idle", elem |-> NoElement, i |-> 0, loaded |-> 0,
           rej |-> FALSE, on |-> 0, fresh |-> FALSE, prevCtx |-> 0, prevNodes |-> {},
           can |-> {}]
DoneOp == [IdleOp EXCEPT !.pc = "done"]

\* no signal-processing state is under exercise
NoDsp == [kind |-> "none"]

Constructed ==
  /\ pl = NewPipeline
  /\ connectedElements = [e \in Elements |-> 0]
  /\ pipeline = FALSE
  /\ currentSettings = DEFAULT_SETTINGS
  /\ ops = [c \in CallIds |-> IdleOp]
  /\ calls = 0
  /\ deliveries = 0
  /\ extValid = TRUE
  /\ ctxState = [c \in CtxIds |-> "none"]
  /\ ctxModules = [c \in CtxIds |-> {}]
  /\ nodeCtx = [n \in AllNodes |-> 0]
  /\ edges = {}
  /\ gpuAlive = {}
  /\ gpuCount = 0
  /\ gpuPending = [adapter |-> 0, device |-> 0]
  /\ proc = [n \in StageNodes |-> StageDefaults(n[2])]
  /\ port = [n \in StageNodes |-> <<>>]
  /\ gainParam = [n \in GainNodes |-> UnityGain]
  /\ lastBlock = NoBlock

\* the browser may or may not expose WebGPU; no fault has happened yet
Init ==
  /\ Constructed
  /\ dsp = NoDsp
  /\ navigatorGpu \in BOOLEAN
  /\ faults = 0

(***************************************************************************)
(* Scheduling. An await on a promise that settles without I/O (the return  *)
(* of an async method) resumes in a microtask; the await of close() or     *)
(* addModule() resumes when the browser finishes the work. Microtasks run  *)
(* before the next task, so while a continuation is queued only            *)
(* continuations run. The one exception is a caller that starts several    *)
(* operations in one task (observeDOM's forEach over the playing           *)
(* elements): a call may follow operations that have not been resumed.     *)
(***************************************************************************)
\* the environment may inject a fault while its budget lasts
Fault(happens) == IF happens THEN faults < MaxFaults /\ faults' = faults + 1
                  ELSE faults' = faults

MicroPcs == {"discA", "loaded", "built", "discC", "resolved", "rejected", "returned"}
MicroPending == \E o \in CallIds : ops[o].pc \in MicroPcs
TaskTurn == ~MicroPending
CallTurn == \A o \in CallIds : ops[o].pc \in MicroPcs => ops[o].fresh

(***************************************************************************)
(* disconnect()                                                            *)
(***************************************************************************)
FieldNodes(p) == {p[f] : f \in NodeFields} \ {NullNode}

\* no node.disconnect() at all
DetachNothing(p, E) == E

\* node.disconnect() on every node the pipeline still references
Detach(p, E) == {ed \in E : ed[1] \notin FieldNodes(p)}

\* the guard of the close() call in disconnect()
NeedsClose(p, cs) == p.audioContext # 0 /\ cs[p.audioContext] # "closed"

\* the assignments that end disconnect(), with currentElement left as it was
KeepsElement(p) ==
  [p EXCEPT !.audioContext = 0, !.sourceNode = NullNode, !.upsamplerNode = NullNode,
            !.spectralExtenderNode = NullNode, !.spatialNode = NullNode,
            !.makeupGainNode = NullNode, !.gainNode = NullNode,
            !.analyserNode = NullNode, !.frequencyData = FALSE,
            !.isConnected = FALSE,
            !.gpuDevice = 0, !.gpuActive = FALSE, !.workletsLoaded = FALSE,
            !.gpuRequested = FALSE]

\* the assignments that end disconnect()
Released(p) ==
  [p EXCEPT !.audioContext = 0, !.sourceNode = NullNode, !.upsamplerNode = NullNode,
            !.spectralExtenderNode = NullNode, !.spatialNode = NullNode,
            !.makeupGainNode = NullNode, !.gainNode = NullNode,
            !.analyserNode = NullNode, !.frequencyData = FALSE,
            !.currentElement = NoElement, !.isConnected = FALSE,
            !.gpuDevice = 0, !.gpuActive = FALSE, !.workletsLoaded = FALSE,
            !.gpuRequested = FALSE]

\* AudioContext.close(): rejects when the context is already being closed
CloseCall(cs, c) == [cs EXCEPT ![c] = "closing"]

(* disconnect() from its first line to its first suspension: operation o,  *)
(* whose record becomes rec, calls it in the state (p, cs, ce, E). It      *)
(* either suspends at `await audioContext.close()` (pcClose) or runs to    *)
(* its end and leaves the caller suspended on the returned promise         *)
(* (pcDone).                                                               *)
DisconnectBegin(o, rec, p, cs, ce, E, pcClose, pcDone) ==
  /\ edges' = Detach(p, E)
  /\ IF NeedsClose(p, cs)
     THEN /\ connectedElements' =
               IF p.currentElement # NoElement
               THEN [ce EXCEPT ![p.currentElement] = 0] ELSE ce
          /\ ctxState' = CloseCall(cs, p.audioContext)
          /\ ops' = [ops EXCEPT ![o] = [rec EXCEPT !.pc = pcClose,
                                                   !.on = p.audioContext,
                                                   !.rej = (cs[p.audioContext] = "closing")]]
          /\ pl' = p
          /\ UNCHANGED gpuAlive
     ELSE /\ connectedElements' = ce
          /\ ctxState' = cs
          /\ gpuAlive' = gpuAlive \ {p.gpuDevice}
          /\ pl' = Released(p)
          /\ ops' = [ops EXCEPT ![o] = [rec EXCEPT !.pc = pcDone]]

(* disconnect() resumed after `await audioContext.close()`: the rest of    *)
(* the method, or the rejection of close() passed on to the caller.        *)
DisconnectEnd(o, pcDone, pcFail) ==
  IF ops[o].rej
  THEN /\ ops' = [ops EXCEPT ![o] = [@ EXCEPT !.pc = pcFail, !.rej = FALSE, !.on = 0,
                                                !.fresh = FALSE]]
       /\ UNCHANGED <<pl, ctxState, gpuAlive>>
  ELSE /\ ctxState' = [ctxState EXCEPT ![ops[o].on] = "closed"]
       /\ gpuAlive' = gpuAlive \ {pl.gpuDevice}
       /\ pl' = Released(pl)
       /\ ops' = [ops EXCEPT ![o] = [@ EXCEPT !.pc = pcDone, !.on = 0, !.fresh = FALSE]]

(***************************************************************************)
(* connect(element), called from handlePlay                                *)
(***************************************************************************)
Dest(c) == <<c, "dest">>

\* the stage modules in the order of workletPaths
ModuleAt(i) == IF i = 1 THEN "ups" ELSE IF i = 2 THEN "ext" ELSE "spa"
NumModules == Cardinality(StageKinds)

StageField(k) == IF k = "ups" THEN "upsamplerNode"
                 ELSE IF k = "ext" THEN "spectralExtenderNode" ELSE "spatialNode"

(* buildProcessingChain(): p already holds the source, gain, makeup gain   *)
(* and analyser nodes. `can` is the set of stages whose AudioWorkletNode   *)
(* constructor does not throw. Returns the fields and the wiring.          *)
BuildChain(o, p, E, can) ==
  LET c    == p.audioContext
      made == IF p.workletsLoaded THEN can ELSE {}
      ups  == IF "ups" \in made THEN <<o, "ups">> ELSE NullNode
      ext  == IF "ext" \in made THEN <<o, "ext">> ELSE NullNode
      spa  == IF "spa" \in made THEN <<o, "spa">> ELSE NullNode
      n1   == IF ups # NullNode THEN ups ELSE p.sourceNode
      n2   == IF ext # NullNode THEN ext ELSE n1
      n3   == IF spa # NullNode THEN spa ELSE n2
      e1   == IF ups # NullNode THEN {<<p.sourceNode, ups>>} ELSE {}
      e2   == IF ext # NullNode THEN {<<n1, ext>>} ELSE {}
      e3   == IF spa # NullNode THEN {<<n2, spa>>} ELSE {}
  IN [p |-> [p EXCEPT !.upsamplerNode = IF ups # NullNode THEN ups ELSE @,
                      !.spectralExtenderNode = IF ext # NullNode THEN ext ELSE @,
                      !.spatialNode = IF spa # NullNode THEN spa ELSE @],
      made |-> made,
      E |-> E \cup e1 \cup e2 \cup e3
              \cup {<<n3, p.makeupGainNode>>, <<p.makeupGainNode, p.gainNode>>,
                    <<p.gainNode, p.analyserNode>>, <<p.analyserNode, Dest(c)>>}]

\* stages whose constructor can succeed in context c: the processor name is registered
Constructible(c) == ctxModules[c]

(* connect() from createMediaElementSource to the await of                 *)
(* buildProcessingChain, in the state (cs, ce); a throw enters the catch   *)
(* block, which runs disconnect().                                         *)
CreateAndBuild(o, cs, ce) ==
  \E srcOk \in BOOLEAN, can \in SUBSET StageKinds :
    IF pl.audioContext = 0 \/ ~srcOk
    THEN /\ can = {}
         /\ Fault(pl.audioContext # 0)
         /\ DisconnectBegin(o, [ops[o] EXCEPT !.rej = FALSE, !.on = 0], pl, cs, ce, edges,
                            "closeC", "discC")
         /\ UNCHANGED <<nodeCtx, ctxModules>>
    ELSE LET c  == pl.audioContext
             p1 == [pl EXCEPT !.sourceNode = <<o, "src">>, !.gainNode = <<o, "gain">>,
                              !.makeupGainNode = <<o, "mk">>,
                              !.analyserNode = <<o, "ana">>, !.frequencyData = TRUE]
             b  == BuildChain(o, p1, edges, can \cap Constructible(c))
         IN /\ can \subseteq Constructible(c)
            /\ Fault(pl.workletsLoaded /\ can # Constructible(c))
            /\ pl' = b.p
            /\ edges' = b.E
            /\ nodeCtx' = [n \in AllNodes |->
                             IF n \in {<<o, "src">>, <<o, "gain">>, <<o, "mk">>, <<o, "ana">>}
                                      \cup {<<o, k>> : k \in b.made}
                             THEN c ELSE nodeCtx[n]]
            /\ connectedElements' = [ce EXCEPT ![ops[o].elem] = c]
            /\ ctxState' = cs
            /\ ops' = [ops EXCEPT ![o] = [@ EXCEPT !.pc = "built", !.rej = FALSE, !.on = 0,
                                                   !.can = can]]
            /\ UNCHANGED <<gpuAlive, ctxModules>>

\* connect() without its early return
AlwaysReconnecting(e) == TRUE

\* connect() is entered with an element other than the connected one
Reconnecting(e) == ~(pl.currentElement = e /\ pl.isConnected)

(* handlePlay: creates the pipeline on first use and calls connect(e).     *)
(* connect runs to its first await: the early return, the extension check  *)
(* and the synchronous head of disconnect().                               *)
HandlePlay(e) ==
  /\ CallTurn
  /\ calls < MaxCalls
  /\ calls' = calls + 1
  /\ pipeline' = TRUE
  /\ LET o   == calls + 1
         rec == [IdleOp EXCEPT !.kind = "play", !.elem = e, !.fresh = TRUE,
                               !.prevCtx = IF pl.isConnected THEN pl.audioContext ELSE 0,
                               !.prevNodes = IF pl.isConnected THEN FieldNodes(pl) ELSE {}]
     IN IF ~Reconnecting(e)
        THEN /\ ops' = [ops EXCEPT ![o] = [IdleOp EXCEPT !.kind = "play", !.elem = e,
                                                         !.fresh = TRUE,
                                                         !.pc = "resolved"]]
             /\ UNCHANGED <<pl, connectedElements, ctxState, edges, gpuAlive>>
        ELSE IF ~extValid
        THEN /\ ops' = [ops EXCEPT ![o] = [IdleOp EXCEPT !.kind = "play", !.elem = e,
                                                         !.fresh = TRUE,
                                                         !.pc = "rejected"]]
             /\ UNCHANGED <<pl, connectedElements, ctxState, edges, gpuAlive>>
        ELSE DisconnectBegin(o, rec, pl, ctxState, connectedElements, edges,
                             "closeA", "discA")
  /\ UNCHANGED <<currentSettings, deliveries, extValid, ctxModules, nodeCtx, gpuCount,
                 gpuPending, stageVars, faults>>
  /\ lastBlock' = NoBlock

\* connect() resumed inside its first disconnect(), after close() settled
ConnectClosedOld(o) ==
  /\ TaskTurn
  /\ ops[o].kind = "play" /\ ops[o].pc = "closeA"
  /\ DisconnectEnd(o, "discA", "rejected")
  /\ UNCHANGED <<connectedElements, pipeline, currentSettings, calls, deliveries, extValid,
                 ctxModules, nodeCtx, edges, gpuCount, gpuPending, stageVars, faults>>
  /\ lastBlock' = NoBlock

(* connect() resumed after `await this.disconnect()`: new AudioContext,    *)
(* then loadWorklets() up to its first addModule (or to its return when    *)
(* the extension context is gone).                                         *)
ConnectCreateContext(o) ==
  /\ ops[o].kind = "play" /\ ops[o].pc = "discA"
  /\ \E ctxOk \in BOOLEAN :
       /\ Fault(~ctxOk)
       /\ IF ~ctxOk
          THEN DisconnectBegin(o, [ops[o] EXCEPT !.fresh = FALSE], pl, ctxState,
                               connectedElements, edges, "closeC", "discC")
          ELSE /\ ctxState' = [ctxState EXCEPT ![o] = "running"]
               /\ IF extValid
                  THEN /\ pl' = [pl EXCEPT !.audioContext = o]
                       /\ ops' = [ops EXCEPT ![o] = [@ EXCEPT !.pc = "mod", !.i = 1,
                                                              !.fresh = FALSE,
                                                              !.loaded = 0, !.on = o]]
                  ELSE /\ pl' = [pl EXCEPT !.audioContext = o, !.workletsLoaded = FALSE]
                       /\ ops' = [ops EXCEPT ![o] = [@ EXCEPT !.pc = "loaded",
                                                              !.fresh = FALSE]]
               /\ UNCHANGED <<connectedElements, edges, gpuAlive>>
  /\ UNCHANGED <<pipeline, currentSettings, calls, deliveries, extValid, ctxModules,
                 nodeCtx, gpuCount, gpuPending, stageVars>>
  /\ lastBlock' = NoBlock

\* loadedCount > 0 when the loop of loadWorklets ends
SomeLoaded(i, loaded) == loaded > 0

\* loadedCount === workletPaths.length when the loop of loadWorklets ends
AllLoaded(i, loaded) == i = NumModules /\ loaded = NumModules

(* loadWorklets() resumed after the i-th addModule settled. On success the *)
(* module is registered in the context addModule was called on. The loop   *)
(* then calls the next addModule; with the extension context gone or       *)
(* this.audioContext null every remaining iteration throws and is caught,  *)
(* so the loop runs to its end without suspending.                         *)
ConnectModuleLoaded(o) ==
  /\ TaskTurn
  /\ ops[o].kind = "play" /\ ops[o].pc = "mod"
  /\ \E ok \in BOOLEAN :
       LET i      == ops[o].i
           loaded == ops[o].loaded + (IF ok THEN 1 ELSE 0)
       IN /\ Fault(~ok)
          /\ ctxModules' = IF ok THEN [ctxModules EXCEPT ![ops[o].on] = @ \cup {ModuleAt(i)}]
                           ELSE ctxModules
          /\ IF i < NumModules /\ extValid /\ pl.audioContext # 0
             THEN /\ ops' = [ops EXCEPT ![o] = [@ EXCEPT !.i = i + 1, !.loaded = loaded,
                                                         !.on = pl.audioContext]]
                  /\ pl' = pl
             ELSE /\ ops' = [ops EXCEPT ![o] = [@ EXCEPT !.pc = "loaded", !.i = 0,
                                                         !.loaded = 0, !.on = 0]]
                  /\ pl' = [pl EXCEPT !.workletsLoaded = AllLoaded(i, loaded)]
  /\ UNCHANGED <<connectedElements, pipeline, currentSettings, calls, deliveries, extValid,
                 ctxState, nodeCtx, edges, gpuAlive, gpuCount, gpuPending, stageVars>>
  /\ lastBlock' = NoBlock

(* connect() resumed after `await this.loadWorklets()`: closes the context *)
(* connectedElements still holds for the element, or goes straight on to   *)
(* create the nodes.                                                       *)
ConnectLoaded(o) ==
  /\ ops[o].kind = "play" /\ ops[o].pc = "loaded"
  /\ LET existing == connectedElements[ops[o].elem]
     IN IF existing # 0 /\ ctxState[existing] # "closed"
        THEN /\ ctxState' = CloseCall(ctxState, existing)
             /\ ops' = [ops EXCEPT ![o] = [@ EXCEPT !.pc = "closeE", !.on = existing,
                                                    !.rej = (ctxState[existing] = "closing")]]
             /\ UNCHANGED <<pl, connectedElements, edges, gpuAlive, nodeCtx, ctxModules,
                            faults>>
        ELSE CreateAndBuild(o, ctxState, connectedElements)
  /\ UNCHANGED <<pipeline, currentSettings, calls, deliveries, extValid, gpuCount,
                 gpuPending, stageVars>>
  /\ lastBlock' = NoBlock

\* connect() resumed after `await existing.context.close()`
ConnectClosedExisting(o) ==
  /\ TaskTurn
  /\ ops[o].kind = "play" /\ ops[o].pc = "closeE"
  /\ IF ops[o].rej
     THEN /\ DisconnectBegin(o, [ops[o] EXCEPT !.rej = FALSE, !.on = 0], pl, ctxState,
                             connectedElements, edges, "closeC", "discC")
          /\ UNCHANGED <<nodeCtx, ctxModules, faults>>
     ELSE CreateAndBuild(o, [ctxState EXCEPT ![ops[o].on] = "closed"],
                         [connectedElements EXCEPT ![ops[o].elem] = 0])
  /\ UNCHANGED <<pipeline, currentSettings, calls, deliveries, extValid, gpuCount,
                 gpuPending, stageVars>>
  /\ lastBlock' = NoBlock

\* connect() resumed after `await this.buildProcessingChain()`: it returns
ConnectFinish(o) ==
  /\ ops[o].kind = "play" /\ ops[o].pc = "built"
  /\ pl' = [pl EXCEPT !.currentElement = ops[o].elem, !.isConnected = TRUE]
  /\ ops' = [ops EXCEPT ![o] = [@ EXCEPT !.pc = "resolved"]]
  /\ UNCHANGED <<connectedElements, pipeline, currentSettings, calls, deliveries, extValid,
                 ctxState, ctxModules, nodeCtx, edges, gpuAlive, gpuCount, gpuPending, stageVars, faults>>
  /\ lastBlock' = NoBlock

\* the catch block of connect() resumed inside disconnect(), after close() settled
ConnectCatchClosed(o) ==
  /\ TaskTurn
  /\ ops[o].kind = "play" /\ ops[o].pc = "closeC"
  /\ DisconnectEnd(o, "discC", "rejected")
  /\ UNCHANGED <<connectedElements, pipeline, currentSettings, calls, deliveries, extValid,
                 ctxModules, nodeCtx, edges, gpuCount, gpuPending, stageVars, faults>>
  /\ lastBlock' = NoBlock

\* the catch block of connect() resumed after `await this.disconnect()`: rethrows
ConnectRethrow(o) ==
  /\ ops[o].kind = "play" /\ ops[o].pc = "discC"
  /\ ops' = [ops EXCEPT ![o] = [@ EXCEPT !.pc = "rejected"]]
  /\ UNCHANGED <<pl, connectedElements, pipeline, currentSettings, calls, deliveries,
                 extValid, ctxState, ctxModules, nodeCtx, edges, gpuAlive, gpuCount,
                 gpuPending, stageVars, faults>>
  /\ lastBlock' = NoBlock

\* handlePlay's catch block: logs the error
HandlePlayCatch(o) ==
  /\ ops[o].kind = "play" /\ ops[o].pc = "rejected"
  /\ ops' = [ops EXCEPT ![o] = DoneOp]
  /\ UNCHANGED <<pl, connectedElements, pipeline, currentSettings, calls, deliveries,
                 extValid, ctxState, ctxModules, nodeCtx, edges, gpuAlive, gpuCount,
                 gpuPending, stageVars, faults>>
  /\ lastBlock' = NoBlock

(***************************************************************************)
(* disconnect() called on its own                                          *)
(***************************************************************************)
DisconnectCall ==
  /\ CallTurn
  /\ calls < MaxCalls
  /\ pipeline
  /\ calls' = calls + 1
  /\ DisconnectBegin(calls + 1,
                     [IdleOp EXCEPT !.kind = "disc", !.fresh = TRUE,
                                    !.prevCtx = pl.audioContext, !.prevNodes = FieldNodes(pl)],
                     pl, ctxState, connectedElements, edges, "closeD", "returned")
  /\ UNCHANGED <<pipeline, currentSettings, deliveries, extValid, ctxModules, nodeCtx,
                 gpuCount, gpuPending, stageVars, faults>>
  /\ lastBlock' = NoBlock

DisconnectClosed(o) ==
  /\ TaskTurn
  /\ ops[o].kind = "disc" /\ ops[o].pc = "closeD"
  /\ DisconnectEnd(o, "returned", "rejected")
  /\ UNCHANGED <<connectedElements, pipeline, currentSettings, calls, deliveries, extValid,
                 ctxModules, nodeCtx, edges, gpuCount, gpuPending, stageVars, faults>>
  /\ lastBlock' = NoBlock

\* the caller of disconnect() resumes with its result
DisconnectReturn(o) ==
  /\ ops[o].kind = "disc" /\ ops[o].pc \in {"returned", "rejected"}
  /\ ops' = [ops EXCEPT ![o] = DoneOp]
  /\ UNCHANGED <<pl, connectedElements, pipeline, currentSettings, calls, deliveries,
                 extValid, ctxState, ctxModules, nodeCtx, edges, gpuAlive, gpuCount,
                 gpuPending, stageVars, faults>>
  /\ lastBlock' = NoBlock

(***************************************************************************)
(* updateSettings(settings), called with the Config of delivery q          *)
(***************************************************************************)
\* the GPU branch: a device is dropped when useGPU is off
AfterGpuSwitch(p, s) ==
  IF ~s.useGPU /\ p.gpuDevice # 0
  THEN [p EXCEPT !.settings = s, !.gpuDevice = 0, !.gpuActive = FALSE]
  ELSE [p EXCEPT !.settings = s,
                 !.gpuRequested = @ \/ (s.useGPU /\ p.gpuDevice = 0)]

\* updateSettings calls initWebGPU, which gets as far as requestAdapter()
StartsGpuInit(p, s) == s.useGPU /\ p.gpuDevice = 0 /\ navigatorGpu

UpdateSettings(s, q) ==
  LET p1 == AfterGpuSwitch(pl, s)
  IN /\ pl' = p1
     /\ gpuAlive' = IF ~s.useGPU THEN gpuAlive \ {pl.gpuDevice} ELSE gpuAlive
     /\ gpuPending' = IF StartsGpuInit(pl, s)
                      THEN [gpuPending EXCEPT !.adapter = @ + 1] ELSE gpuPending
     /\ gainParam' = [n \in GainNodes |->
                        IF n = pl.gainNode THEN MasterVolume(s)
                        ELSE IF n = pl.makeupGainNode /\ pl.audioContext # 0
                        THEN MakeupGain(s) ELSE gainParam[n]]
     /\ port' = [n \in StageNodes |->
                   IF n = pl[StageField(n[2])]
                   THEN Append(port[n], StageMessage(n[2], s, p1, q)) ELSE port[n]]

\* handlePlay resumed after `await pipeline.connect(element)` returned
HandlePlayPush(o) ==
  /\ ops[o].kind = "play" /\ ops[o].pc = "resolved"
  /\ ops' = [ops EXCEPT ![o] = DoneOp]
  /\ UpdateSettings(currentSettings, deliveries)
  /\ UNCHANGED <<connectedElements, pipeline, currentSettings, calls, deliveries, extValid,
                 ctxState, ctxModules, nodeCtx, edges, gpuCount, navigatorGpu, dsp, faults,
                 proc>>
  /\ lastBlock' = NoBlock

\* the SET_SETTINGS message handler of the content script
SetSettings(c) ==
  /\ TaskTurn
  /\ deliveries < MaxDeliveries
  /\ deliveries' = deliveries + 1
  /\ currentSettings' = c
  /\ IF pipeline
     THEN UpdateSettings(c, deliveries + 1)
     ELSE UNCHANGED <<pl, gpuAlive, gpuPending, gainParam, port>>
  /\ UNCHANGED <<connectedElements, pipeline, ops, calls, extValid, ctxState, ctxModules,
                 nodeCtx, edges, gpuCount, navigatorGpu, dsp, faults, proc>>
  /\ lastBlock' = NoBlock

(***************************************************************************)
(* initWebGPU(), resumed                                                   *)
(***************************************************************************)
\* after `await requestAdapter()`: no adapter ends it, else requestDevice()
GpuAdapterResolved ==
  /\ TaskTurn
  /\ gpuPending.adapter > 0
  /\ \E ok \in BOOLEAN :
       /\ Fault(~ok)
       /\ gpuPending' = [adapter |-> gpuPending.adapter - 1,
                         device |-> gpuPending.device + (IF ok THEN 1 ELSE 0)]
  /\ UNCHANGED <<pl, connectedElements, pipeline, currentSettings, ops, calls, deliveries,
                 extValid, ctxState, ctxModules, nodeCtx, edges, gpuAlive, gpuCount,
                 stageVars>>
  /\ lastBlock' = NoBlock

\* after `await adapter.requestDevice()`: the device is stored, whatever happened since
GpuDeviceStored(p, d) == [p EXCEPT !.gpuDevice = d, !.gpuActive = TRUE]

GpuDeviceResolved ==
  /\ TaskTurn
  /\ gpuPending.device > 0
  /\ gpuPending' = [gpuPending EXCEPT !.device = @ - 1]
  /\ \E ok \in BOOLEAN :
       /\ Fault(~ok)
       /\ IF ok
          THEN /\ gpuCount' = gpuCount + 1
               /\ gpuAlive' = gpuAlive \cup {gpuCount + 1}
               /\ pl' = GpuDeviceStored(pl, gpuCount + 1)
          ELSE UNCHANGED <<gpuCount, gpuAlive, pl>>
  /\ UNCHANGED <<connectedElements, pipeline, currentSettings, ops, calls, deliveries,
                 extValid, ctxState, ctxModules, nodeCtx, edges, stageVars>>
  /\ lastBlock' = NoBlock

(***************************************************************************)
(* The audio rendering thread: it runs beside the main thread and handles  *)
(* one port message or renders one block at a time.                        *)
(***************************************************************************)
\* the processor of stage node n handles the oldest message of its port; a closed
\* context no longer runs its processors
DeliverMessage(n) ==
  /\ port[n] # <<>>
  /\ nodeCtx[n] # 0 /\ ctxState[nodeCtx[n]] \in {"running", "closing"}
  /\ proc' = [proc EXCEPT ![n] = OnMessage(n[2], @, Head(port[n]))]
  /\ port' = [port EXCEPT ![n] = Tail(@)]
  /\ UNCHANGED <<pl, connectedElements, pipeline, currentSettings, ops, calls, deliveries,
                 extValid, ctxState, ctxModules, nodeCtx, edges, gpuAlive, gpuCount,
                 gpuPending, navigatorGpu, dsp, faults, gainParam>>
  /\ lastBlock' = NoBlock

Succs(N) == {ed[2] : ed \in {x \in edges : x[1] \in N}}

RECURSIVE ReachFrom(_, _)
ReachFrom(N, fuel) == IF fuel = 0 THEN N ELSE ReachFrom(N \cup Succs(N), fuel - 1)

\* the nodes a block entering at source node n passes through
ChainOf(n) == ReachFrom({n}, Cardinality(NodeKinds))

NoStage == [absent |-> TRUE]

(* One render quantum of the chain that starts at source node n: every     *)
(* stage on it runs process() once, with the settings it holds then.       *)
RenderQuantum(n) ==
  /\ n[2] = "src" /\ nodeCtx[n] # 0
  /\ ctxState[nodeCtx[n]] \in {"running", "closing"}
  /\ Dest(nodeCtx[n]) \in ChainOf(n)
  /\ lastBlock' = [k \in StageKinds |->
                     IF \E m \in ChainOf(n) : m # Dest(nodeCtx[n]) /\ m[2] = k
                     THEN proc[CHOOSE m \in ChainOf(n) : m # Dest(nodeCtx[n]) /\ m[2] = k]
                     ELSE NoStage]
  /\ UNCHANGED <<pl, connectedElements, pipeline, currentSettings, ops, calls, deliveries,
                 extValid, ctxState, ctxModules, nodeCtx, edges, gpuAlive, gpuCount,
                 gpuPending, navigatorGpu, dsp, faults, proc, port, gainParam>>

\* the extension is reloaded or removed: chrome.runtime stops working for good
InvalidateExtension ==
  /\ TaskTurn
  /\ extValid
  /\ Fault(TRUE)
  /\ extValid' = FALSE
  /\ UNCHANGED <<pl, connectedElements, pipeline, currentSettings, ops, calls, deliveries,
                 ctxState, ctxModules, nodeCtx, edges, gpuAlive, gpuCount, gpuPending,
                 stageVars>>
  /\ lastBlock' = NoBlock

\* the continuations of a handlePlay in which nothing throws
CleanStep(o) ==
  \/ ConnectClosedOld(o)
  \/ ConnectCreateContext(o)
  \/ ConnectModuleLoaded(o)
  \/ ConnectLoaded(o)
  \/ ConnectFinish(o)
  \/ HandlePlayPush(o)

(* the continuations of a handlePlay that no other handlePlay overlaps:     *)
(* when its loadWorklets returns, connectedElements holds no open context  *)
(* for the element, so connect never awaits existing.context.close()       *)
SerialStep(o) ==
  \/ CleanStep(o)
  \/ ConnectCatchClosed(o)
  \/ ConnectRethrow(o)
  \/ HandlePlayCatch(o)

\* every continuation of a handlePlay
ConnectStep(o) ==
  \/ SerialStep(o)
  \/ ConnectClosedExisting(o)

(***************************************************************************)
(* Spec: the life cycle. Calls of handlePlay and disconnect, suspended and *)
(* resumed in every order, with environment faults.                        *)
(***************************************************************************)
Next ==
  \/ InvalidateExtension
  \/ \E e \in Elements : HandlePlay(e)
  \/ \E o \in CallIds : ConnectStep(o)
  \/ DisconnectCall
  \/ \E o \in CallIds : DisconnectClosed(o)
  \/ \E o \in CallIds : DisconnectReturn(o)

Spec == Init /\ [][Next]_vars

\* no call of the pipeline is suspended
Quiet == \A o \in CallIds : ops[o].pc \in {"idle", "done"}

\* a play event that arrives while no call is suspended
PlayWhenQuiet(e) == Quiet /\ HandlePlay(e)

(***************************************************************************)
(* SpecGpu: Config deliveries, the accelerator and disconnect, with play   *)
(* events that do not overlap.                                             *)
(***************************************************************************)
NextGpu ==
  \/ \E c \in Configs : SetSettings(c)
  \/ GpuAdapterResolved
  \/ GpuDeviceResolved
  \/ \E e \in Elements : PlayWhenQuiet(e)
  \/ \E o \in CallIds : SerialStep(o)
  \/ DisconnectCall
  \/ \E o \in CallIds : DisconnectClosed(o)
  \/ \E o \in CallIds : DisconnectReturn(o)

InitGpu ==
  /\ Constructed
  /\ dsp = NoDsp
  /\ navigatorGpu = TRUE
  /\ faults = 0

SpecGpu == InitGpu /\ [][NextGpu]_vars

(***************************************************************************)
(* SpecSeq: the life cycle driven by play events that do not overlap, with *)
(* environment faults.                                                     *)
(***************************************************************************)
NextSeq ==
  \/ InvalidateExtension
  \/ \E e \in Elements : PlayWhenQuiet(e)
  \/ \E o \in CallIds : SerialStep(o)

SpecSeq == Init /\ [][NextSeq]_vars

(***************************************************************************)
(* SpecCfg: Config deliveries, the stage ports and the rendering thread,   *)
(* with play events that do not overlap, on a machine without WebGPU and   *)
(* without environment faults (so nothing throws).                         *)
(***************************************************************************)
InitCfg ==
  /\ Constructed
  /\ dsp = NoDsp
  /\ navigatorGpu = FALSE
  /\ faults = MaxFaults

NextCfg ==
  \/ \E c \in Configs : SetSettings(c)
  \/ \E e \in Elements : PlayWhenQuiet(e)
  \/ \E o \in CallIds : CleanStep(o)
  \/ \E n \in StageNodes : DeliverMessage(n)
  \/ \E n \in AllNodes : RenderQuantum(n)

SpecCfg == InitCfg /\ [][NextCfg]_vars

(* SpecCfgFair: the same, where a suspended operation is resumed (the       *)
(* browser settles every promise the pipeline awaits) and the rendering    *)
(* thread handles the messages queued on its ports.                        *)
SpecCfgFair ==
  /\ SpecCfg
  /\ WF_vars(\E o \in CallIds : CleanStep(o))
  /\ WF_vars(\E n \in StageNodes : DeliverMessage(n))

(***************************************************************************)
(* Properties of the life cycle                                            *)
(***************************************************************************)
\* the Disconnected state: nothing is held
Disconnected(p) ==
  /\ ~p.isConnected /\ p.currentElement = NoElement
  /\ p.audioContext = 0 /\ FieldNodes(p) = {} /\ ~p.frequencyData

\* the fields of the source
Fields(p) == [p EXCEPT !.gpuRequested = FALSE]

\* operation o is a connect or a disconnect suspended at one of its awaits
ConnectPcs == {"closeA", "discA", "mod", "loaded", "closeE", "built", "closeC", "discC"}
Suspended(o) == ops[o].pc \in ConnectPcs \cup {"closeD"}

\* the optional stages the pipeline holds
Made(p) == {k \in StageKinds : p[StageField(k)] # NullNode}

StagesInOrder(p) ==
  (IF p.upsamplerNode # NullNode THEN <<p.upsamplerNode>> ELSE <<>>)
  \o (IF p.spectralExtenderNode # NullNode THEN <<p.spectralExtenderNode>> ELSE <<>>)
  \o (IF p.spatialNode # NullNode THEN <<p.spatialNode>> ELSE <<>>)

ChainNodes(p) ==
  <<p.sourceNode>> \o StagesInOrder(p) \o <<p.makeupGainNode, p.gainNode, p.analyserNode>>

\* source -> the stages held, in order -> makeup gain -> gain -> analyser -> destination
ChainEdges(p) ==
  {<<ChainNodes(p)[i], ChainNodes(p)[i + 1]>> : i \in 1 .. (Len(ChainNodes(p)) - 1)}
  \cup {<<p.analyserNode, Dest(p.audioContext)>>}

\* the nodes the pipeline holds are wired as that chain and nothing else
Wired(p) == {ed \in edges : ed[1] \in FieldNodes(p)} = ChainEdges(p)

\* the connect of operation o has returned after building a chain
ConnectBuilt(o) ==
  ops[o].kind = "play" /\ ops[o].pc = "resolved" /\ nodeCtx[<<o, "src">>] # 0

(* C1: whenever connect fails, from any prior state, the pipeline ends     *)
(* Disconnected. Stated for a connect that no other operation overlaps:    *)
(* the step in which it rejects leaves the pipeline holding nothing.       *)
C1_FailedConnectEndsDisconnected ==
  [][\A o \in CallIds :
       (/\ \A x \in CallIds \ {o} : ~Suspended(x)
        /\ ops[o].pc # "rejected"
        /\ ops'[o].kind = "play" /\ ops'[o].pc = "rejected")
       => Disconnected(pl')]_vars

(* C2: at most one connect or disconnect is in flight: no two operations   *)
(* are suspended at an await at the same time.                             *)
C2_SingleInFlight == Cardinality({o \in CallIds : Suspended(o)}) <= 1

(* C3: when connect(B) is called while Connected to A, A's chain is torn   *)
(* down before any node for B exists: A's context is closed, no node of A  *)
(* is wired or held, whenever a node created by that connect exists.       *)
C3_OldChainTornDownFirst ==
  \A o \in CallIds :
    (ops[o].kind = "play" /\ ops[o].prevCtx # 0
     /\ \E k \in NodeKinds : nodeCtx[<<o, k>>] # 0)
    => /\ ctxState[ops[o].prevCtx] = "closed"
       /\ \A ed \in edges : ed[1] \notin ops[o].prevNodes
       /\ FieldNodes(pl) \cap ops[o].prevNodes = {}
       /\ pl.audioContext # ops[o].prevCtx

\* a connect called while Connected to another element has built its chain
C3_Witness ==
  \E o \in CallIds :
    /\ ConnectBuilt(o) /\ ops[o].prevCtx # 0 /\ ops[o].prevNodes # {}
    /\ pl.isConnected /\ pl.currentElement = ops[o].elem

(* C4: connect(e) while Connected to e changes nothing (no node, context,  *)
(* wiring, connectedElements entry or stage state) and the call succeeds.  *)
C4_SameElementNoOp ==
  [][\A e \in Elements :
       (/\ pl.isConnected /\ pl.currentElement = e
        /\ calls' = calls + 1
        /\ ops'[calls + 1].kind = "play" /\ ops'[calls + 1].elem = e)
       => /\ pl' = pl /\ edges' = edges /\ ctxState' = ctxState /\ nodeCtx' = nodeCtx
          /\ connectedElements' = connectedElements /\ ctxModules' = ctxModules
          /\ proc' = proc /\ port' = port /\ gainParam' = gainParam
          /\ ops'[calls + 1].pc = "resolved"]_vars

\* a connect returned without building anything, the pipeline Connected to its element
C4_Witness ==
  \E o \in CallIds :
    /\ ops[o].kind = "play" /\ ops[o].pc = "resolved"
    /\ \A k \in NodeKinds : nodeCtx[<<o, k>>] = 0
    /\ pl.isConnected /\ pl.currentElement = ops[o].elem /\ Wired(pl)

(* C5: when disconnect() returns every reference is null, isConnected is   *)
(* false and currentElement is null; a disconnect() called in that state,  *)
(* or on a never-connected pipeline, changes nothing and returns.          *)
C5_DisconnectReleasesAndIsIdempotent ==
  [][/\ \A o \in CallIds :
          (ops[o].pc # "returned" /\ ops'[o].kind = "disc" /\ ops'[o].pc = "returned")
          => Disconnected(pl')
     /\ (/\ Disconnected(pl) /\ pl.gpuDevice = 0 /\ ~pl.gpuActive /\ ~pl.workletsLoaded
         /\ calls' = calls + 1 /\ ops'[calls + 1].kind = "disc")
        => /\ Fields(pl') = Fields(pl) /\ edges' = edges /\ ctxState' = ctxState
           /\ connectedElements' = connectedElements /\ gpuAlive' = gpuAlive
           /\ ops'[calls + 1].pc = "returned"]_vars

\* a disconnect() called on a pipeline that held a chain has returned
C5_Witness ==
  \E o \in CallIds :
    /\ ops[o].kind = "disc" /\ ops[o].pc = "returned"
    /\ ops[o].prevCtx # 0 /\ ops[o].prevNodes # {}
    /\ ctxState[ops[o].prevCtx] = "closed" /\ Disconnected(pl)

(* C7 as stated: if one optional stage cannot be loaded or constructed,    *)
(* connect succeeds and only that stage is omitted: the other two, whose   *)
(* modules loaded and whose nodes can be constructed, are in the chain.    *)
C7_OnlyFailedStageOmitted ==
  \A o \in CallIds :
    (ConnectBuilt(o) /\ Cardinality(StageKinds \ ops[o].can) = 1)
    => Made(pl) = ops[o].can /\ Wired(pl)

(* C7 amended: a stage whose node cannot be constructed is the only one    *)
(* omitted; if any stage module could not be loaded, all three stages are  *)
(* omitted. Either way connect succeeds and the chain runs source ->       *)
(* stages held -> makeup gain -> gain -> analyser -> destination.          *)
C7_StageOmittedOrPassThrough ==
  \A o \in CallIds :
    ConnectBuilt(o)
    => /\ pl.isConnected /\ pl.currentElement = ops[o].elem
       /\ Made(pl) = IF ctxModules[pl.audioContext] = StageKinds THEN ops[o].can ELSE {}
       /\ Wired(pl)

\* a connect succeeded although one module did not load: no stage is in the chain
C7_Witness ==
  \E o \in CallIds :
    /\ ConnectBuilt(o) /\ pl.isConnected
    /\ Cardinality(ctxModules[pl.audioContext]) = 2
    /\ ops[o].can = ctxModules[pl.audioContext]
    /\ Made(pl) = {}

(***************************************************************************)
(* Properties of the accelerator and of Config delivery                    *)
(***************************************************************************)
(* C6: once disconnect() has returned, no accelerator context becomes held *)
(* until a later updateSettings requests one: gpuDevice goes from null to  *)
(* a device only if updateSettings asked for it since disconnect finished. *)
C6_NoDeviceUntilRequestedAgain ==
  [][(pl.gpuDevice = 0 /\ pl'.gpuDevice # 0) => pl.gpuRequested]_vars

\* the optional stages the pipeline holds, as nodes
HeldStages == {pl[StageField(k)] : k \in StageKinds} \ {NullNode}

\* the fields of the settings of a stage of kind k that every message defines
SettingsFields(k) ==
  IF k = "ups" THEN {"enabled", "targetSampleRate", "quality", "lowLatencyMode"}
  ELSE IF k = "ext" THEN {"enabled", "maxFrequency", "intensity"}
  ELSE {"enabled", "mode", "width", "depth", "height", "lowLatencyMode"}

\* the settings st of a stage of kind k are the ones message m carries
Agrees(k, st, m) ==
  /\ \A f \in SettingsFields(k) : st[f] = m[f]
  /\ (k = "spa" /\ m.hrtfIntensity # {}) => st.hrtfIntensity \in m.hrtfIntensity

\* the processor of stage node n has applied the message derived from the last delivery
HoldsLatest(n) ==
  /\ proc[n].seq = deliveries
  /\ Agrees(n[2], proc[n], StageMessage(n[2], currentSettings, pl, deliveries))

(* C8: every constructed stage eventually holds the settings derived from  *)
(* the most recently delivered Config, also when it was constructed by a   *)
(* connect in progress at that delivery, and no stage goes back to the     *)
(* settings of an older delivery.                                          *)
C8_StagesConvergeToLatestConfig ==
  /\ <>[](\A n \in HeldStages : HoldsLatest(n))
  /\ [][\A n \in StageNodes : proc'[n].seq >= proc[n].seq]_vars

\* a stage built by a connect that was in progress at the last delivery holds its Config
C8_Witness ==
  \E n \in HeldStages :
    /\ pl.isConnected /\ deliveries = MaxDeliveries /\ currentSettings # DEFAULT_SETTINGS
    /\ port[n] = <<>> /\ proc[n].seq = deliveries /\ HoldsLatest(n)
    /\ proc[n].enabled

\* the stages that processed the last block with settings a delivery gave them
ConfiguredInBlock ==
  {k \in StageKinds : lastBlock[k] # NoStage /\ lastBlock[k].seq >= 0}

(* C9: no block is processed under a mixture of two Configs: the settings  *)
(* of all configured stages that processed a block derive from one Config. *)
C9_BlockUnderOneConfig ==
  lastBlock # NoBlock
  => \E c \in Configs :
       \A k \in ConfiguredInBlock :
         Agrees(k, lastBlock[k], StageMessage(k, c, pl, lastBlock[k].seq))

(* C10: the settings a stage holds after a Config is delivered depend on   *)
(* that Config alone: two stages of the same kind whose last message came  *)
(* from the same delivery hold identical settings, whatever was delivered  *)
(* to them before.                                                         *)
C10_SettingsFromLastConfigAlone ==
  \A n, m \in StageNodes :
    (n[2] = m[2] /\ proc[n].seq >= 0 /\ proc[n].seq = proc[m].seq)
    => proc[n] = proc[m]

(***************************************************************************)
(* The settings boundary                                                   *)
(***************************************************************************)
\* DEFAULT_SETTINGS with the 32 kHz ceiling of FREQUENCY_OPTIONS at the 48 kHz rate
CeilingAboveNyquist ==
  [DEFAULT_SETTINGS EXCEPT !.frequencyExtension.maxFrequency = 32000]

\* the payloads the popup can send
DeliveredConfigs == Configs \cup {CeilingAboveNyquist}

(* SpecBoundary: SpecCfg without the rendering of blocks, where the popup  *)
(* may also deliver a Config whose ceiling is above half the target rate.  *)
NextBoundary ==
  \/ \E c \in DeliveredConfigs : SetSettings(c)
  \/ \E e \in Elements : PlayWhenQuiet(e)
  \/ \E o \in CallIds : CleanStep(o)
  \/ \E n \in StageNodes : DeliverMessage(n)

SpecBoundary == InitCfg /\ [][NextBoundary]_vars

\* the extension ceiling is at most half the target rate
ValidCeiling(s) == 2 * s.frequencyExtension.maxFrequency <= s.upsampling.targetSampleRate

(* C11: a delivered Config whose ceiling exceeds half the target rate is   *)
(* rejected: after the step that handles a delivery the active Config is   *)
(* either valid or, together with the pipeline's settings and every stage  *)
(* port, what it was before.                                               *)
C11_InvalidCeilingRejected ==
  [][(deliveries' = deliveries + 1 /\ ~ValidCeiling(currentSettings'))
     => (currentSettings' = currentSettings /\ pl'.settings = pl.settings
         /\ port' = port)]_vars

(***************************************************************************)
(* Chain order                                                             *)
(***************************************************************************)
\* the pipeline is Connected and not being torn down
ConnectedLive ==
  pl.isConnected /\ pl.audioContext # 0 /\ ctxState[pl.audioContext] = "running"

(* C19: whenever the pipeline is Connected, the nodes it holds are wired   *)
(* as one chain source -> interpolation -> extender -> virtualizer (those  *)
(* constructed) -> makeup gain -> gain -> analyser -> destination, and     *)
(* every node it holds is on the path from the source.                     *)
C19_FixedChainOrder ==
  ConnectedLive
  => /\ Wired(pl)
     /\ ChainOf(pl.sourceNode) = FieldNodes(pl) \cup {Dest(pl.audioContext)}
     /\ \A n \in FieldNodes(pl) : nodeCtx[n] = pl.audioContext

(***************************************************************************)
(* Latency estimate. Milliseconds are counted in ticks of 1/19200 ms, so   *)
(* that a hundredth of a sample period is a whole number of ticks at each  *)
(* rate of SAMPLE_RATE_OPTIONS; sample-domain delays are counted in        *)
(* hundredths of a sample (depth and height scale a delay by x/100).       *)
(***************************************************************************)
SAMPLE_RATE_OPTIONS == {48000, 96000, 192000}
\* (hundredths of a sample / sampleRate) * 1000, in ticks
SamplesToMs(hundredths, sampleRate) == hundredths * (192000 \div sampleRate)
\* the sample-domain delay (hundredths of a sample) a processing latency stands for
MsToSamples(ticks, sampleRate) == ticks \div (192000 \div sampleRate)

\* calculateExpectedLatency with the windows of the two modes exchanged
ExpectedLatencySwapped(settings) ==
  LET up  == settings.hiResEnabled /\ settings.upsampling.enabled
      ext == settings.hiResEnabled /\ settings.frequencyExtension.enabled
      spa == settings.spatialEnabled /\ settings.spatialAudio.enabled
      low == ~settings.lowLatencyMode
      activeNodes == 1 + (IF up THEN 1 ELSE 0) + (IF ext THEN 1 ELSE 0)
                       + (IF spa THEN 1 ELSE 0)
      totalSamples ==
          (IF up THEN ((IF low THEN 4 ELSE 16) \div 2) * 100 ELSE 0)
        + (IF ext THEN (IF low THEN 256 ELSE 512) * 100 ELSE 0)
        + (IF spa THEN (IF low THEN 50 ELSE 200) * settings.spatialAudio.depth ELSE 0)
        + 128 * activeNodes * 100
  IN SamplesToMs(totalSamples, 48000)

\* popup: the expected latency of a Config, before any connection
calculateExpectedLatency(settings) ==
  LET up  == settings.hiResEnabled /\ settings.upsampling.enabled
      ext == settings.hiResEnabled /\ settings.frequencyExtension.enabled
      spa == settings.spatialEnabled /\ settings.spatialAudio.enabled
      low == settings.lowLatencyMode
      activeNodes == 1 + (IF up THEN 1 ELSE 0) + (IF ext THEN 1 ELSE 0)
                       + (IF spa THEN 1 ELSE 0)
      totalSamples ==
          (IF up THEN ((IF low THEN 4 ELSE 16) \div 2) * 100 ELSE 0)
        + (IF ext THEN (IF low THEN 256 ELSE 512) * 100 ELSE 0)
        + (IF spa
           THEN (IF low THEN 50 ELSE 200) * settings.spatialAudio.depth
                + (IF settings.spatialAudio.mode = "atmos"
                   THEN (IF low THEN 25 ELSE 100) * settings.spatialAudio.height
                   ELSE 0)
           ELSE 0)
        + 128 * activeNodes * 100
  IN SamplesToMs(totalSamples, 48000)

\* calculateProcessingLatency counting the stage nodes that were constructed
ProcessingLatencyOfNodes(p, sampleRate, hardwareLatency) ==
  IF p.audioContext = 0 \/ p.settings = NoSettings THEN 0
  ELSE hardwareLatency
       + SamplesToMs(128 * 100 * (1 + Cardinality({p.upsamplerNode, p.spectralExtenderNode,
                                                   p.spatialNode} \ {NullNode})),
                     sampleRate)

\* pipeline: getStatus().latency; sampleRate, baseLatency + outputLatency are
\* properties of the AudioContext
calculateProcessingLatency(p, sampleRate, hardwareLatency) ==
  IF p.audioContext = 0 \/ p.settings = NoSettings THEN 0
  ELSE LET settings == p.settings
           up  == settings.hiResEnabled /\ settings.upsampling.enabled
           ext == settings.hiResEnabled /\ settings.frequencyExtension.enabled
           spa == settings.spatialEnabled /\ settings.spatialAudio.enabled
           low == settings.lowLatencyMode
           activeNodes == 1 + (IF up THEN 1 ELSE 0) + (IF ext THEN 1 ELSE 0)
                            + (IF spa THEN 1 ELSE 0)
           totalSamples ==
               (IF up THEN ((IF low THEN 4 ELSE 16) \div 2) * 100 ELSE 0)
             + (IF ext THEN (IF low THEN 256 ELSE 512) * 100 ELSE 0)
             + (IF spa
                THEN (IF low THEN 50 ELSE 200) * settings.spatialAudio.depth
                     + (IF settings.spatialAudio.mode = "atmos"
                        THEN (IF low THEN 25 ELSE 100) * settings.spatialAudio.height
                        ELSE 0)
                ELSE 0)
             + 128 * activeNodes * 100
       IN hardwareLatency + SamplesToMs(totalSamples, sampleRate)

\* base + output latency of the context, in ticks (0 and 5 ms)
HardwareLatencies == {0, 96000}

\* every variable of the pipeline model
pipeVars == <<pl, connectedElements, pipeline, currentSettings, ops, calls, deliveries,
              extValid, ctxState, ctxModules, nodeCtx, edges, gpuAlive, gpuCount,
              gpuPending, navigatorGpu, faults, proc, port, gainParam, lastBlock>>

\* the page before any play event, on a machine without WebGPU
Unplugged == Constructed /\ navigatorGpu = FALSE /\ faults = 0 /\ lastBlock = NoBlock

(* SpecLatency: the popup holds a Config and shows its expected latency,   *)
(* a connected pipeline holding the same Config reports its own; the user  *)
(* toggles the low-latency switch and moves the depth slider.              *)
RangedValues == {0, 30, 100}
SpatialModes == {"off", "stereo-wide", "surround-71", "atmos"}

LatencyConfigs ==
  {[DEFAULT_SETTINGS EXCEPT !.enabled = en, !.hiResEnabled = h, !.spatialEnabled = sp,
                            !.lowLatencyMode = low,
                            !.upsampling.enabled = ue,
                            !.frequencyExtension.enabled = fe,
                            !.spatialAudio.enabled = se, !.spatialAudio.mode = m,
                            !.spatialAudio.depth = d, !.spatialAudio.height = ht] :
     en \in BOOLEAN, h \in BOOLEAN, sp \in BOOLEAN, low \in BOOLEAN, ue \in BOOLEAN,
     fe \in BOOLEAN,
     se \in BOOLEAN, m \in SpatialModes, d \in RangedValues, ht \in {0, 100}}

\* last names the handler that ran last ("load": the popup was opened)
Estimates(last, settings, sampleRate, hardwareLatency) ==
  [kind |-> "latency", last |-> last, settings |-> settings, sampleRate |-> sampleRate,
   hardwareLatency |-> hardwareLatency,
   expected |-> calculateExpectedLatency(settings),
   actual |-> calculateProcessingLatency(
                [NewPipeline EXCEPT !.audioContext = 1, !.settings = settings],
                sampleRate, hardwareLatency)]

InitLatency ==
  /\ Unplugged
  /\ dsp \in {Estimates("load", s, r, h) : s \in LatencyConfigs, r \in SAMPLE_RATE_OPTIONS,
                                   h \in HardwareLatencies}

toggleLowLatency ==
  /\ dsp' = Estimates("toggleLowLatency",
                      [dsp.settings EXCEPT !.lowLatencyMode = ~dsp.settings.lowLatencyMode],
                      dsp.sampleRate, dsp.hardwareLatency)
  /\ UNCHANGED pipeVars

setDepth(d) ==
  /\ d # dsp.settings.spatialAudio.depth
  /\ dsp' = Estimates("setDepth", [dsp.settings EXCEPT !.spatialAudio.depth = d],
                      dsp.sampleRate, dsp.hardwareLatency)
  /\ UNCHANGED pipeVars

NextLatency == toggleLowLatency \/ \E d \in RangedValues : setDepth(d)

SpecLatency == InitLatency /\ [][NextLatency]_vars

\* the step switches low-latency mode on and changes nothing else of the Config
LowLatencySwitchedOn ==
  /\ ~dsp.settings.lowLatencyMode
  /\ dsp'.settings = [dsp.settings EXCEPT !.lowLatencyMode = TRUE]

(* C15: of two Configs that differ only in the low-latency flag, the one   *)
(* with the flag off has an estimate at least as large, in the popup and   *)
(* in the pipeline.                                                        *)
C15_LatencyMonotoneInLowLatency ==
  [][LowLatencySwitchedOn
     => (dsp.expected >= dsp'.expected /\ dsp.actual >= dsp'.actual)]_vars

\* low-latency mode was just switched on for a Config with every stage active
\* in atmos mode, and the estimate is strictly smaller than that of its twin
C15_Witness ==
  /\ dsp.kind = "latency" /\ dsp.last = "toggleLowLatency"
  /\ dsp.settings.lowLatencyMode
  /\ dsp.settings.hiResEnabled /\ dsp.settings.upsampling.enabled
  /\ dsp.settings.frequencyExtension.enabled
  /\ dsp.settings.spatialEnabled /\ dsp.settings.spatialAudio.enabled
  /\ dsp.settings.spatialAudio.mode = "atmos" /\ dsp.settings.spatialAudio.depth = 100
  /\ dsp.expected < calculateExpectedLatency([dsp.settings EXCEPT !.lowLatencyMode = FALSE])

(* SpecStatus: non-overlapping play events with environment faults (so     *)
(* stages may be omitted) and Config deliveries, on a machine without      *)
(* WebGPU.                                                                 *)
NextStatus ==
  \/ InvalidateExtension
  \/ \E e \in Elements : PlayWhenQuiet(e)
  \/ \E o \in CallIds : SerialStep(o)
  \/ \E c \in Configs : SetSettings(c)

InitStatus == Unplugged /\ dsp = NoDsp

SpecStatus == InitStatus /\ [][NextStatus]_vars

FullScale == 1000
SampleValues == {-FullScale, -500, 0, 500, FullScale}

\* a GainNode whose gain has settled on its target
GainProcess(g, x) == (x * g) \div UnityGain

\* the TOGGLE_ENABLED message handler of the content script
ToggleEnabled == SetSettings([currentSettings EXCEPT !.enabled = ~currentSettings.enabled])

(* SpecBypass: SpecCfg with the TOGGLE_ENABLED message.                    *)
NextBypass ==
  \/ \E c \in Configs : SetSettings(c)
  \/ ToggleEnabled
  \/ \E e \in Elements : PlayWhenQuiet(e)
  \/ \E o \in CallIds : CleanStep(o)
  \/ \E n \in StageNodes : DeliverMessage(n)
  \/ \E n \in AllNodes : RenderQuantum(n)

SpecBypass == InitCfg /\ [][NextBypass]_vars

\* the source nodes a block can be rendered from
Rendering == {n \in AllNodes : /\ n[2] = "src" /\ nodeCtx[n] # 0
                               /\ ctxState[nodeCtx[n]] \in {"running", "closing"}
                               /\ Dest(nodeCtx[n]) \in ChainOf(n)}

\* what the sink receives for input sample x when every stage of the chain
\* from source node n copies its input
SinkSample(n, x) ==
  GainProcess(gainParam[<<n[1], "gain">>], GainProcess(gainParam[<<n[1], "mk">>], x))

(* C12: a block rendered while every stage on the chain is disabled, with  *)
(* no Config message still on its way to a stage, reaches the sink equal   *)
(* to the input, sample for sample.                                        *)
C12_BypassIdentity ==
  (/\ lastBlock # NoBlock
   /\ \A k \in StageKinds : lastBlock[k] = NoStage \/ ~lastBlock[k].enabled
   /\ \A m \in StageNodes : port[m] = <<>>)
  => \A n \in Rendering : \A x \in SampleValues : SinkSample(n, x) = x

(***************************************************************************)
(* SpectralExtenderProcessor (spectral-extender.worklet.ts), one channel.  *)
(* The transform is modelled at a quarter-turn resolution: FFT_SIZE is 4   *)
(* and HOP_SIZE 1 (the source: 1024 and 256, the same 75% overlap), the    *)
(* rings hold 2 * FFT_SIZE samples as in the source and a render quantum   *)
(* is one sample. At this size the Hann window is 0, 1/2, 1, 1/2 and every *)
(* twiddle factor is 1, -1, i or -i, so the arithmetic is exact: window    *)
(* values are kept in halves, windowSum in quarters, the output ring in    *)
(* 1 / OlaDen of a sample unit.                                            *)
(***************************************************************************)
FFT_SIZE == 4
HOP_SIZE == 1
RingSize == FFT_SIZE * 2
RingIdx == 0 .. (RingSize - 1)
FftIdx == 0 .. (FFT_SIZE - 1)

\* JavaScript a % b for b > 0: the result has the sign of a
JsRem(a, b) == IF a >= 0 THEN a % b ELSE -((-a) % b)

\* cos and sin of q quarter turns
CosQ(q) == LET r == q % 4 IN IF r = 0 THEN 1 ELSE IF r = 2 THEN -1 ELSE 0
SinQ(q) == LET r == q % 4 IN IF r = 1 THEN 1 ELSE IF r = 3 THEN -1 ELSE 0

\* window[i] = 0.5 * (1 - cos(2 pi i / FFT_SIZE)), in halves
Window2(i) == 1 - CosQ((4 * i) \div FFT_SIZE)

RECURSIVE SumTo(_, _)
SumTo(f, n) == IF n < 0 THEN 0 ELSE f[n] + SumTo(f, n - 1)

\* windowSum after the constructor, in quarters
WindowSum4 ==
  (SumTo([i \in FftIdx |-> Window2(i) * Window2(i)], FFT_SIZE - 1) * FFT_SIZE) \div HOP_SIZE

\* window[i] * scale with scale = HOP_SIZE / windowSum * 2, applied to a value
\* in halves, is OlaNum / OlaDen of that value times Window2(i)
OlaNum == HOP_SIZE * 2 * 4
OlaDen == 4 * WindowSum4

\* the index the j of the bit reversal loop ends with
RECURSIVE BitReverse(_, _, _)
BitReverse(i, levels, j) ==
  IF levels = 0 THEN j ELSE BitReverse(i \div 2, levels - 1, 2 * j + (i % 2))

RECURSIVE Log2(_)
Log2(n) == IF n <= 1 THEN 0 ELSE 1 + Log2(n \div 2)

\* the butterflies of one pass of the given size, in loop order, as <<size, i, j>>
RECURSIVE Butterflies(_, _)
Butterflies(size, n) ==
  IF size > n THEN <<>>
  ELSE [k \in 1 .. (n \div 2) |->
          <<size, ((k - 1) \div (size \div 2)) * size, (k - 1) % (size \div 2)>>]
       \o Butterflies(2 * size, n)

Butterfly(c, b, inverse) ==
  LET size == b[1]
      half == size \div 2
      q == (IF inverse THEN 1 ELSE -1) * ((4 * b[3]) \div size) + 4
      evenIdx == b[2] + b[3]
      oddIdx == b[2] + b[3] + half
      tr == c.re[oddIdx] * CosQ(q) - c.im[oddIdx] * SinQ(q)
      ti == c.re[oddIdx] * SinQ(q) + c.im[oddIdx] * CosQ(q)
  IN [re |-> [c.re EXCEPT ![oddIdx] = c.re[evenIdx] - tr, ![evenIdx] = c.re[evenIdx] + tr],
      im |-> [c.im EXCEPT ![oddIdx] = c.im[evenIdx] - ti, ![evenIdx] = c.im[evenIdx] + ti]]

RECURSIVE ButterflyPasses(_, _, _)
ButterflyPasses(c, bs, inverse) ==
  IF bs = <<>> THEN c ELSE ButterflyPasses(Butterfly(c, Head(bs), inverse), Tail(bs), inverse)

\* fft(real, imag, inverse), in place
fft(c, inverse) ==
  LET n == FFT_SIZE
      rev == [re |-> [i \in FftIdx |-> c.re[BitReverse(i, Log2(n), 0)]],
              im |-> [i \in FftIdx |-> c.im[BitReverse(i, Log2(n), 0)]]]
      d == ButterflyPasses(rev, Butterflies(2, n), inverse)
  IN IF inverse
     THEN [re |-> [i \in FftIdx |-> d.re[i] \div n], im |-> [i \in FftIdx |-> d.im[i] \div n]]
     ELSE d

(* applySBR at sampleRate. With FFT_SIZE = 4 there are two bins: cutoffBin  *)
(* is 0 or 1, srcStartBin is 0 up to 32 kHz, and either targetBin <=        *)
(* cutoffBin or srcWidth <= 0, so the function returns before its loop at   *)
(* every rate of SAMPLE_RATE_OPTIONS; the loop (165-193) is not modelled.   *)
Min(a, b) == IF a <= b THEN a ELSE b
Max(a, b) == IF a >= b THEN a ELSE b

applySBR(c, settings, sampleRate) ==
  LET binCount == FFT_SIZE \div 2
      \* hzPerBin = nyquist / binCount = sampleRate / FFT_SIZE
      cutoffBin == Min((15000 * FFT_SIZE) \div sampleRate, binCount - 1)
      \* targetHz = min(maxFrequency, nyquist * 0.9), in 1/20 Hz
      targetHz20 == Min(20 * settings.maxFrequency, 9 * sampleRate)
      targetBin == Min((targetHz20 * FFT_SIZE) \div (20 * sampleRate), binCount - 1)
      srcStartBin == (8000 * FFT_SIZE) \div sampleRate
      srcWidth == cutoffBin - srcStartBin
  IN IF targetBin <= cutoffBin \/ srcWidth <= 0 THEN c ELSE c

\* a freshly constructed processor
NewExtender ==
  [settings |-> SpectralExtenderDefaults,
   inputRing |-> [i \in RingIdx |-> 0], outputRing |-> [i \in RingIdx |-> 0],
   inputPos |-> 0, outputPos |-> 0, hopCounter |-> 0,
   initialized |-> FALSE, initCounter |-> 0]

RECURSIVE OverlapAdd(_, _, _, _)
OverlapAdd(outRing, outputPos, real, i) ==
  IF i = FFT_SIZE THEN outRing
  ELSE OverlapAdd([outRing EXCEPT ![(outputPos + i) % RingSize] =
                     @ + real[i] * Window2(i) * OlaNum],
                  outputPos, real, i + 1)

\* a frame that starts one sample earlier
FrameIndexOneEarlier(inputPos, i) == JsRem(inputPos - FFT_SIZE + i + RingSize - 1, RingSize)

\* processFrame: the input ring slot of the i-th sample of the frame
FrameIndex(inputPos, i) == JsRem(inputPos - FFT_SIZE + i + RingSize, RingSize)

\* processFrame(channel): the output ring after it
processFrame(x, sampleRate) ==
  LET windowed == [re |-> [i \in FftIdx |-> x.inputRing[FrameIndex(x.inputPos, i)] * Window2(i)],
                   im |-> [i \in FftIdx |-> 0]]
      spectrum == applySBR(fft(windowed, FALSE), x.settings, sampleRate)
      back == fft(spectrum, TRUE)
  IN OverlapAdd(x.outputRing, x.outputPos, back.re, 0)

\* one iteration of the main loop of process(): <<processor, output sample>>
MainSample(x, sample, sampleRate) ==
  LET x1 == [x EXCEPT !.inputRing[x.inputPos] = sample,
                      !.inputPos = (x.inputPos + 1) % RingSize,
                      !.hopCounter = x.hopCounter + 1]
      x2 == IF x1.hopCounter >= HOP_SIZE
            THEN [x1 EXCEPT !.outputRing = processFrame(x1, sampleRate), !.hopCounter = 0]
            ELSE x1
  IN <<[x2 EXCEPT !.outputRing[x2.outputPos] = 0,
                  !.outputPos = (x2.outputPos + 1) % RingSize],
       x2.outputRing[x2.outputPos] \div OlaDen>>

RECURSIVE MainLoop(_, _, _, _)
MainLoop(x, block, out, sampleRate) ==
  IF block = <<>> THEN <<x, out>>
  ELSE LET r == MainSample(x, Head(block), sampleRate)
       IN MainLoop(r[1], Tail(block), Append(out, r[2]), sampleRate)

\* the initialisation period of process()
InitPeriod(x, block) ==
  LET frameSize == Len(block)
      ring == [i \in RingIdx |->
                 IF i >= x.inputPos /\ i < x.inputPos + frameSize
                 THEN block[i - x.inputPos + 1] ELSE x.inputRing[i]]
      pos == (x.inputPos + frameSize) % RingSize
      cnt == x.initCounter + frameSize
  IN <<[x EXCEPT !.inputRing = ring, !.inputPos = pos, !.initCounter = cnt,
                 !.initialized = (cnt >= FFT_SIZE),
                 !.outputPos = IF cnt >= FFT_SIZE THEN pos ELSE x.outputPos],
       block>>

\* process(inputs, outputs): <<processor, output block>>
ExtenderProcess(x, block, sampleRate) ==
  IF ~x.settings.enabled \/ x.settings.intensity <= 0 THEN <<x, block>>
  ELSE IF ~x.initialized THEN InitPeriod(x, block)
  ELSE MainLoop(x, block, <<>>, sampleRate)

(***************************************************************************)
(* The other SpectralExtenderProcessor of the repository (part_002), which *)
(* registers under the same name 'spectral-extender-processor'. Same       *)
(* scale: FFT_SIZE 4, HOP_SIZE 1 (the source: 2048 and 512). Its Hann      *)
(* window divides by FFT_SIZE - 1: 0, 3/4, 3/4, 0, kept in quarters; its   *)
(* output buffer is kept in sixteenths of a sample unit.                   *)
(***************************************************************************)
\* 2 cos(2 pi i / 3)
TwiceCosThird(i) == IF i % 3 = 0 THEN 2 ELSE -1
\* window[i] = 0.5 * (1 - cos(2 pi i / (FFT_SIZE - 1))), in quarters
WindowB4(i) == 2 - TwiceCosThird(i)

NewExtenderB ==
  [settings |-> [enabled |-> TRUE, maxFrequency |-> 24000, intensity |-> 50, seq |-> -1],
   inputBuffer |-> [i \in RingIdx |-> 0], outputBuffer |-> [i \in RingIdx |-> 0],
   inputWritePos |-> 0, outputReadPos |-> 0]

(* extendSpectrum at sampleRate. With two bins sourceBin = targetBin = 1    *)
(* whenever the source cutoff is 16 kHz and the ceiling at least 12 kHz,    *)
(* so its loop (151-171) has no iteration and is not modelled.              *)
extendSpectrum(c, settings, sampleRate) ==
  LET binCount == FFT_SIZE \div 2
      \* in 1/20 Hz; nyquist * 0.8 = sampleRate * 8, nyquist * 0.95 = sampleRate * 19 / 2
      sourceCutoff20 == Min(sampleRate * 8, 20 * 16000)
      targetCutoff20 == Min(20 * settings.maxFrequency, (sampleRate * 19) \div 2)
      sourceBin == (sourceCutoff20 * binCount * 2) \div (20 * sampleRate)
      targetBin == (targetCutoff20 * binCount * 2) \div (20 * sampleRate)
  IN IF targetCutoff20 <= sourceCutoff20 \/ sourceBin >= targetBin THEN c ELSE c

RECURSIVE OverlapAddB(_, _, _, _)
OverlapAddB(outputBuf, outputReadPos, real, i) ==
  IF i = FFT_SIZE THEN outputBuf
  ELSE OverlapAddB([outputBuf EXCEPT ![(outputReadPos + i) % RingSize] =
                      @ + real[i] * WindowB4(i)],
                   outputReadPos, real, i + 1)

processFrameB(x, sampleRate) ==
  LET windowed == [re |-> [i \in FftIdx |-> x.inputBuffer[i] * WindowB4(i)],
                   im |-> [i \in FftIdx |-> 0]]
      forward == fft(windowed, FALSE)
      spectrum == IF x.settings.enabled /\ x.settings.intensity > 0
                  THEN extendSpectrum(forward, x.settings, sampleRate) ELSE forward
      back == fft(spectrum, TRUE)
  IN OverlapAddB(x.outputBuffer, x.outputReadPos, back.re, 0)

RECURSIVE WriteInput(_, _)
WriteInput(x, block) ==
  IF block = <<>> THEN x
  ELSE WriteInput([x EXCEPT !.inputBuffer[x.inputWritePos] = Head(block),
                            !.inputWritePos = (x.inputWritePos + 1) % RingSize],
                  Tail(block))

RECURSIVE ReadOutput(_, _, _)
ReadOutput(x, n, out) ==
  IF n = 0 THEN <<x, out>>
  ELSE ReadOutput([x EXCEPT !.outputBuffer[x.outputReadPos] = 0,
                            !.outputReadPos = (x.outputReadPos + 1) % RingSize],
                  n - 1, Append(out, x.outputBuffer[x.outputReadPos] \div 16))

\* process(inputs, outputs) of part_002: <<processor, output block>>
ExtenderProcessB(x, block, sampleRate) ==
  IF ~x.settings.enabled THEN <<x, block>>
  ELSE LET x1 == WriteInput(x, block)
           x2 == IF x1.inputWritePos % HOP_SIZE = 0
                 THEN [x1 EXCEPT !.outputBuffer = processFrameB(x1, sampleRate)]
                 ELSE x1
       IN ReadOutput(x2, Len(block), <<>>)

(* SpecExtender: one extender processor at 48 kHz, constructed from either *)
(* registration of 'spectral-extender-processor'; Config messages reach    *)
(* its port and the rendering thread calls process() with one block after  *)
(* the other.                                                              *)
MaxCallbacks == 8
MaxMessages == 2
FrameSize == 1

ExtenderSamples == {0, FullScale}
ExtenderBlocks == [1 .. FrameSize -> ExtenderSamples]

\* the Configs whose extender message differs: enabled or not, intensity 0 or 30
ExtenderConfigs ==
  {[DEFAULT_SETTINGS EXCEPT !.hiResEnabled = TRUE, !.frequencyExtension.enabled = e,
                            !.frequencyExtension.intensity = i] :
     e \in BOOLEAN, i \in {0, 30}}

(* Three fields are not in the source: last names the handler that ran     *)
(* last, written counts the samples written to the input ring without a    *)
(* bypassed block in between and mainRun those of them that went through   *)
(* the main loop (both stop counting at RingSize).                         *)
ExtenderSources == {"spectral-extender.worklet.ts", "part_002"}

InitExtender ==
  /\ Unplugged
  /\ \E src \in ExtenderSources :
       dsp = [kind |-> "extender", source |-> src,
              x |-> IF src = "part_002" THEN NewExtenderB ELSE NewExtender,
              sampleRate |-> 48000,
              input |-> <<>>, output |-> <<>>, last |-> "constructor",
              callbacks |-> 0, messages |-> 0, written |-> 0, mainRun |-> 0]

ExtenderOnMessage(c) ==
  /\ dsp.messages < MaxMessages
  /\ dsp' = [dsp EXCEPT !.x.settings = SpectralExtenderOnMessage(
                                          @, SpectralExtenderMessage(c, NewPipeline, 0)),
                        !.messages = @ + 1, !.last = "onmessage"]
  /\ UNCHANGED pipeVars

ExtenderCallback(block) ==
  /\ dsp.callbacks < MaxCallbacks
  /\ LET r == IF dsp.source = "part_002"
              THEN ExtenderProcessB(dsp.x, block, dsp.sampleRate)
              ELSE ExtenderProcess(dsp.x, block, dsp.sampleRate)
         bypassed == r[1] = dsp.x
         main == ~bypassed /\ dsp.source # "part_002" /\ dsp.x.initialized
     IN dsp' = [dsp EXCEPT !.x = r[1], !.input = block, !.output = r[2],
                           !.last = "process", !.callbacks = @ + 1,
                           !.written = IF bypassed THEN 0 ELSE Min(@ + Len(block), RingSize),
                           !.mainRun = IF main THEN Min(@ + Len(block), RingSize) ELSE 0]
  /\ UNCHANGED pipeVars

NextExtender ==
  \/ \E c \in ExtenderConfigs : ExtenderOnMessage(c)
  \/ \E block \in ExtenderBlocks : ExtenderCallback(block)

SpecExtender == InitExtender /\ [][NextExtender]_vars

\* the sample written to the input ring d samples before the latest one
Delayed(x, d) == x.inputRing[(x.inputPos - 1 - d + RingSize) % RingSize]

(* C18: once the frames that overlap an output sample were all computed    *)
(* from an unbroken input, and the spectral modification changes no bin,   *)
(* the output sample equals the input sample of FFT_SIZE - 1 samples       *)
(* earlier (the delay of the overlap-add path), with unity gain.           *)
C18_RoundTripUnityGain ==
  (/\ dsp.last = "process" /\ dsp.source = "spectral-extender.worklet.ts"
   /\ dsp.mainRun >= FFT_SIZE /\ dsp.written >= 2 * FFT_SIZE - 1)
  => dsp.output[Len(dsp.output)] = Delayed(dsp.x, FFT_SIZE - 1)

(* C14: a block processed while the extender's intensity is 0 leaves the   *)
(* extender equal to the block that entered it, whether the stage is       *)
(* enabled or not and whatever earlier blocks left in its rings.           *)
C14_ZeroIntensityPassthrough ==
  (dsp.last = "process" /\ dsp.x.settings.intensity = 0) => dsp.output = dsp.input

(***************************************************************************)
(* SpatialProcessor (spatial-processor.worklet.ts), sample by sample, for  *)
(* the modes 'off' and 'stereo-wide' (the rings of 'surround-71' and       *)
(* 'atmos' are followed by the ring cursor specification). Samples, pan    *)
(* amounts and filter states are integers in 1/1000; a product of two      *)
(* fractions is divided back with truncation toward zero. Math.tanh is     *)
(* replaced by the clamp of its argument to [-1, 1], which is odd,         *)
(* monotone, zero at zero and bounded by 1 as tanh is.                     *)
(***************************************************************************)
MAX_ITD_SAMPLES == 48
CROSSFEED_DELAY == 20
\* one render quantum: 128 sample frames in the browser, 24 here, still longer
\* than the crossfeed delay and half of either ring
Quantum == 24

TruncDiv(a, b) == IF a >= 0 THEN a \div b ELSE -((-a) \div b)
Abs(a) == IF a >= 0 THEN a ELSE -a
Tanh(x) == Max(-FullScale, Min(FullScale, x))

NewSpatial ==
  [settings |-> SpatialDefaults,
   itdBufferL |-> [i \in 0 .. (MAX_ITD_SAMPLES - 1) |-> 0],
   itdBufferR |-> [i \in 0 .. (MAX_ITD_SAMPLES - 1) |-> 0],
   itdWritePos |-> 0,
   ildFilterState |-> <<0, 0>>,
   crossfeedFilterState |-> <<0, 0>>,
   crossfeedDelayL |-> [i \in 0 .. (CROSSFEED_DELAY * 2 - 1) |-> 0],
   crossfeedDelayR |-> [i \in 0 .. (CROSSFEED_DELAY * 2 - 1) |-> 0],
   crossfeedWritePos |-> 0]

\* alpha = dt / (rc + dt) with rc = 1 / (2 pi cutoffHz), 2 pi taken as 44 / 7
Alpha(cutoffHz, sampleRate) == (44 * cutoffHz * 1000) \div (7 * sampleRate + 44 * cutoffHz)
\* state.y1 + alpha * (sample - state.y1)
OnePole(y1, sample, alpha) == y1 + TruncDiv(alpha * (sample - y1), 1000)

\* applyITD: <<processor, outL, outR>>; panAmount in 1/1000
applyITD(x, left, right, panAmount) ==
  LET maxDelaySamples == Min(32, MAX_ITD_SAMPLES - 1)
      delaySamples == (Abs(panAmount) * maxDelaySamples) \div 1000
      bufL == [x.itdBufferL EXCEPT ![x.itdWritePos] = left]
      bufR == [x.itdBufferR EXCEPT ![x.itdWritePos] = right]
      readPosL == JsRem(x.itdWritePos - (IF panAmount > 0 THEN delaySamples ELSE 0)
                        + MAX_ITD_SAMPLES, MAX_ITD_SAMPLES)
      readPosR == JsRem(x.itdWritePos - (IF panAmount < 0 THEN delaySamples ELSE 0)
                        + MAX_ITD_SAMPLES, MAX_ITD_SAMPLES)
  IN <<[x EXCEPT !.itdBufferL = bufL, !.itdBufferR = bufR,
                 !.itdWritePos = (x.itdWritePos + 1) % MAX_ITD_SAMPLES],
       bufL[readPosL], bufR[readPosR]>>

\* applyILD that shadows the left ear also for a centred source
ShadowLeftWhenCentred(x, left, right, panAmount, sampleRate) ==
  LET filtered == OnePole(x.ildFilterState[1], left, Alpha(3000, sampleRate))
  IN <<[x EXCEPT !.ildFilterState[1] = filtered], TruncDiv(left + filtered, 2), right>>

\* applyILD: <<processor, outL, outR>>
applyILD(x, left, right, panAmount, sampleRate) ==
  LET ildAmount == (Abs(panAmount) * 4) \div 10
      cutoffHz == 3000 + (1000 - ildAmount) * 12
      alpha == Alpha(cutoffHz, sampleRate)
  IN IF panAmount > 0
     THEN LET filtered == OnePole(x.ildFilterState[1], left, alpha)
          IN <<[x EXCEPT !.ildFilterState[1] = filtered],
               TruncDiv(left * (1000 - ildAmount) + filtered * ildAmount, 1000), right>>
     ELSE IF panAmount < 0
     THEN LET filtered == OnePole(x.ildFilterState[2], right, alpha)
          IN <<[x EXCEPT !.ildFilterState[2] = filtered],
               left, TruncDiv(right * (1000 - ildAmount) + filtered * ildAmount, 1000)>>
     ELSE <<x, left, right>>

\* applyCrossfeed: <<processor, outL, outR>>; amount in 1/1000
applyCrossfeed(x, left, right, amount, sampleRate) ==
  LET len == CROSSFEED_DELAY * 2
      dL == [x.crossfeedDelayL EXCEPT ![x.crossfeedWritePos] = left]
      dR == [x.crossfeedDelayR EXCEPT ![x.crossfeedWritePos] = right]
      readPos == JsRem(x.crossfeedWritePos - CROSSFEED_DELAY + len, len)
      alpha == Alpha(700, sampleRate)
      fL == OnePole(x.crossfeedFilterState[1], dR[readPos], alpha)
      fR == OnePole(x.crossfeedFilterState[2], dL[readPos], alpha)
      crossL == TruncDiv(TruncDiv(fL * amount, 1000) * 15, 100)
      crossR == TruncDiv(TruncDiv(fR * amount, 1000) * 15, 100)
  IN <<[x EXCEPT !.crossfeedDelayL = dL, !.crossfeedDelayR = dR,
                 !.crossfeedWritePos = (x.crossfeedWritePos + 1) % len,
                 !.crossfeedFilterState = <<fL, fR>>],
       left + crossL, right + crossR>>

\* processStereoWide: <<processor, outL, outR>>
processStereoWide(x, left, right, sampleRate) ==
  LET \* width * hrtfScale = (settings.width / 100) * (hrtfIntensity / 8), in 1/800
      wh == x.settings.width * x.settings.hrtfIntensity
      mid == TruncDiv(left + right, 2)
      side == TruncDiv(left - right, 2)
      enhancedSide == TruncDiv(side * (800 + wh), 800)
      panAmount == TruncDiv(Tanh(side * 3) * wh, 800)
      a == applyITD(x, mid + enhancedSide, mid - enhancedSide, TruncDiv(panAmount * 5, 10))
      b == applyILD(a[1], a[2], a[3], TruncDiv(panAmount * 3, 10), sampleRate)
      \* (1 - width * 0.5) * hrtfScale
      amount == TruncDiv((200 - x.settings.width) * x.settings.hrtfIntensity * 1000, 1600)
  IN applyCrossfeed(b[1], b[2], b[3], amount, sampleRate)

Clip(v) == Max(-FullScale, Min(FullScale, v))

\* the loop of process() over one stereo block: <<processor, outL, outR>>
RECURSIVE SpatialLoop(_, _, _, _, _, _)
SpatialLoop(x, inL, inR, outL, outR, sampleRate) ==
  IF inL = <<>> THEN <<x, outL, outR>>
  ELSE LET r == IF x.settings.mode = "stereo-wide"
                THEN processStereoWide(x, Head(inL), Head(inR), sampleRate)
                ELSE <<x, Head(inL), Head(inR)>>
       IN SpatialLoop(r[1], Tail(inL), Tail(inR),
                      Append(outL, Clip(r[2])), Append(outR, Clip(r[3])), sampleRate)

\* process(inputs, outputs); a mono input has r = <<>>: <<processor, outL, outR>>
SpatialProcess(x, inL, inR, sampleRate) ==
  IF inR = <<>> THEN <<x, inL, inL>>
  ELSE IF ~x.settings.enabled \/ x.settings.mode = "off" THEN <<x, inL, inR>>
  ELSE SpatialLoop(x, inL, inR, <<>>, <<>>, sampleRate)

(* SpecSpatial: one spatial processor at 48 kHz; Config messages reach its *)
(* port and the rendering thread calls process() with blocks of one render *)
(* quantum, each holding one sample value per channel throughout.          *)
MaxQuanta == 3

\* <<left, right>> or <<mono>>; 1500 is a finite sample beyond full scale
StereoInputs == {<<0, 0>>, <<FullScale, FullScale>>, <<FullScale, -500>>, <<1500, 1500>>, <<500>>}
Block(v) == [i \in 1 .. Quantum |-> v]

\* the Configs whose message to the virtualizer differs
SpatialConfigs ==
  {[DEFAULT_SETTINGS EXCEPT !.spatialEnabled = TRUE, !.spatialAudio.enabled = e,
                            !.spatialAudio.mode = m, !.spatialAudio.width = w] :
     e \in BOOLEAN, m \in {"off", "stereo-wide"}, w \in {50, 100}}

(* Two fields are not in the source: last names the handler that ran last, *)
(* centred tells that every block so far had equal left and right samples. *)
InitSpatial ==
  /\ Unplugged
  /\ dsp = [kind |-> "spatial", x |-> NewSpatial, sampleRate |-> 48000,
            inL |-> <<>>, inR |-> <<>>, outL |-> <<>>, outR |-> <<>>,
            last |-> "constructor", callbacks |-> 0, messages |-> 0, centred |-> TRUE]

SpatialOnMessageArrives(c) ==
  /\ dsp.messages < MaxMessages
  /\ dsp' = [dsp EXCEPT !.x.settings = SpatialOnMessage(@, SpatialMessage(c, NewPipeline, 0)),
                        !.messages = @ + 1, !.last = "onmessage"]
  /\ UNCHANGED pipeVars

SpatialCallback(v) ==
  /\ dsp.callbacks < MaxQuanta
  /\ LET inL == Block(v[1])
         inR == IF Len(v) = 1 THEN <<>> ELSE Block(v[2])
         r == SpatialProcess(dsp.x, inL, inR, dsp.sampleRate)
     IN dsp' = [dsp EXCEPT !.x = r[1], !.inL = inL, !.inR = inR,
                           !.outL = r[2], !.outR = r[3],
                           !.last = "process", !.callbacks = @ + 1,
                           !.centred = @ /\ (Len(v) = 1 \/ v[1] = v[2])]
  /\ UNCHANGED pipeVars

NextSpatial ==
  \/ \E c \in SpatialConfigs : SpatialOnMessageArrives(c)
  \/ \E v \in StereoInputs : SpatialCallback(v)

SpecSpatial == InitSpatial /\ [][NextSpatial]_vars

(* C13: after process(), every sample of both output channels lies within  *)
(* [-1, 1], whatever the Config and the finite input, bypass included.     *)
C13_OutputWithinFullScale ==
  dsp.last = "process"
  => \A i \in 1 .. Len(dsp.outL) :
       /\ -FullScale <= dsp.outL[i] /\ dsp.outL[i] <= FullScale
       /\ -FullScale <= dsp.outR[i] /\ dsp.outR[i] <= FullScale

(* C17: a virtualizer that has only ever been fed blocks with equal left   *)
(* and right samples, in mode stereo-wide with width 100, puts out equal   *)
(* left and right samples.                                                 *)
C17_CentredStaysCentred ==
  (/\ dsp.last = "process" /\ dsp.centred /\ dsp.inR # <<>>
   /\ dsp.x.settings.enabled /\ dsp.x.settings.mode = "stereo-wide"
   /\ dsp.x.settings.width = 100)
  => dsp.outL = dsp.outR

\* such a block, non-silent, on which the crossfeed has added to the input
C17_Witness ==
  /\ dsp.kind = "spatial" /\ dsp.last = "process" /\ dsp.centred /\ dsp.inR # <<>>
  /\ dsp.x.settings.enabled /\ dsp.x.settings.mode = "stereo-wide"
  /\ dsp.x.settings.width = 100
  /\ dsp.outL = dsp.outR
  /\ \E i \in 1 .. Quantum : dsp.inL[i] # 0 /\ dsp.outL[i] # dsp.inL[i]

(***************************************************************************)
(* Ring cursors. The cursors of different rings never read or write each   *)
(* other, so each ring is followed on its own: the initial state chooses   *)
(* the ring. The rings of the spatial processor have their capacities of   *)
(* the source and carry no samples here; the two rings of the spectral     *)
(* extender are those of the extender model above. A read is recorded as   *)
(* [idx, write, delay]: the slot read, the write cursor of the sample in   *)
(* progress and the age in samples of the slot the code means to address.  *)
(***************************************************************************)
MAX_REFLECTION_DELAY == 2400
PINNA_DELAY == 18
SURROUND_DELAY_SIZE == 4800

SpatialRings == {"itd", "crossfeed", "reflection", "pinna", "surround"}

\* the length of the Float32Arrays of a ring
Capacity(ring) ==
  CASE ring = "itd" -> MAX_ITD_SAMPLES
    [] ring = "crossfeed" -> CROSSFEED_DELAY * 2
    [] ring = "reflection" -> MAX_REFLECTION_DELAY
    [] ring = "pinna" -> PINNA_DELAY * 2
    [] ring = "surround" -> SURROUND_DELAY_SIZE

\* the modes whose per-sample function reaches the ring
Uses(ring, mode) ==
  CASE ring \in {"itd", "crossfeed"} -> mode \in {"stereo-wide", "surround-71", "atmos"}
    [] ring \in {"reflection", "surround"} -> mode \in {"surround-71", "atmos"}
    [] ring = "pinna" -> mode = "atmos"

\* the read position without the wrap
ReadPosWithoutWrap(writePos, delay, capacity) == writePos - delay

\* (writePos - delay + capacity) % capacity
RingReadPos(writePos, delay, capacity) == JsRem(writePos - delay + capacity, capacity)

\* (writePos + 1) % capacity
RingAdvance(writePos, capacity) == (writePos + 1) % capacity

\* the delays, in samples, of the reads of one sample
ReadDelays(ring, settings, left, right) ==
  CASE ring = "itd" ->
         LET wh == settings.width * settings.hrtfIntensity
             side == TruncDiv(left - right, 2)
             panAmount == TruncDiv(TruncDiv(Tanh(side * 3) * wh, 800) * 5, 10)
             delaySamples == (Abs(panAmount) * Min(32, MAX_ITD_SAMPLES - 1)) \div 1000
         IN {IF panAmount > 0 THEN delaySamples ELSE 0,
             IF panAmount < 0 THEN delaySamples ELSE 0}
    [] ring = "crossfeed" -> {CROSSFEED_DELAY}
    [] ring = "reflection" -> IF settings.lowLatencyMode THEN {120, 240, 380, 520}
                              ELSE {240, 520, 880, 1200}
    [] ring = "pinna" -> {1, PINNA_DELAY}
    [] ring = "surround" -> IF settings.lowLatencyMode THEN {720, 1680} ELSE {1200, 2400}

\* one sample: <<write cursor, reads>>
RingSample(ring, settings, writePos, left, right) ==
  <<RingAdvance(writePos, Capacity(ring)),
    {[idx |-> RingReadPos(writePos, d, Capacity(ring)), write |-> writePos, delay |-> d] :
       d \in ReadDelays(ring, settings, left, right)}>>

\* the loop of process() over n samples: <<write cursor, reads, samples written>>
RECURSIVE RingLoop(_, _, _, _, _, _, _, _)
RingLoop(ring, settings, writePos, left, right, n, reads, written) ==
  IF n = 0 THEN <<writePos, reads, written>>
  ELSE IF Uses(ring, settings.mode)
  THEN LET r == RingSample(ring, settings, writePos, left, right)
       IN RingLoop(ring, settings, r[1], left, right, n - 1, reads \cup r[2], written + 1)
  ELSE RingLoop(ring, settings, writePos, left, right, n - 1, reads, written)

\* process() as the ring sees it; v is <<left, right>> or <<mono>>
RingProcess(ring, settings, writePos, v) ==
  IF Len(v) = 1 \/ ~settings.enabled \/ settings.mode = "off" THEN <<writePos, {}, 0>>
  ELSE RingLoop(ring, settings, writePos, v[1], v[2], Quantum, {}, 0)

\* the sample value of each channel of a block
RingInputs == {<<0, 0>>, <<FullScale, -FullScale>>, <<-FullScale, FullScale>>, <<500>>}

\* Configs with every mode, at the top of the ranges of width and hrtfIntensity
RingConfigs ==
  {[GamingGpuSettings EXCEPT !.spatialAudio.enabled = e, !.spatialAudio.mode = m,
                             !.lowLatencyMode = l] :
     e \in BOOLEAN, m \in {"off", "stereo-wide", "surround-71", "atmos"}, l \in BOOLEAN}

InitRings ==
  /\ Unplugged
  /\ \/ \E ring \in SpatialRings :
          dsp = [kind |-> "ring", ring |-> ring,
                 x |-> [settings |-> SpatialDefaults, writePos |-> 0],
                 reads |-> {}, written |-> 0, last |-> "constructor"]
     \/ dsp = [kind |-> "ring", ring |-> "extender", x |-> NewExtender,
               reads |-> {}, written |-> 0, last |-> "constructor"]

RingOnMessage(c) ==
  /\ dsp.ring \in SpatialRings
  /\ dsp' = [dsp EXCEPT !.x.settings = SpatialOnMessage(@, SpatialMessage(c, NewPipeline, 0)),
                        !.last = "onmessage"]
  /\ UNCHANGED pipeVars

RingCallback(v) ==
  /\ dsp.ring \in SpatialRings
  /\ LET r == RingProcess(dsp.ring, dsp.x.settings, dsp.x.writePos, v)
     IN dsp' = [dsp EXCEPT !.x.writePos = r[1], !.reads = r[2], !.written = r[3],
                           !.last = "process"]
  /\ UNCHANGED pipeVars

ExtenderRingOnMessage(c) ==
  /\ dsp.ring = "extender"
  /\ dsp' = [dsp EXCEPT !.x.settings =
                          SpectralExtenderOnMessage(@, SpectralExtenderMessage(c, NewPipeline, 0)),
                        !.last = "onmessage"]
  /\ UNCHANGED pipeVars

\* a silent block; the frame reads are those of processFrame at the cursor it ran at
ExtenderRingCallback ==
  /\ dsp.ring = "extender"
  /\ LET r == ExtenderProcess(dsp.x, [i \in 1 .. FrameSize |-> 0], 48000)
         bypass == ~dsp.x.settings.enabled \/ dsp.x.settings.intensity <= 0
         main == ~bypass /\ dsp.x.initialized
     IN dsp' = [dsp EXCEPT !.x = r[1],
                           !.reads = IF main
                                     THEN {[idx |-> FrameIndex(r[1].inputPos, i),
                                            write |-> r[1].inputPos,
                                            delay |-> FFT_SIZE - i] : i \in FftIdx}
                                     ELSE {},
                           !.written = IF bypass THEN 0 ELSE FrameSize,
                           !.last = "process"]
  /\ UNCHANGED pipeVars

NextRings ==
  \/ \E c \in RingConfigs : RingOnMessage(c)
  \/ \E v \in RingInputs : RingCallback(v)
  \/ \E c \in ExtenderConfigs : ExtenderRingOnMessage(c)
  \/ ExtenderRingCallback

SpecRings == InitRings /\ [][NextRings]_vars

RingCapacity == IF dsp.ring = "extender" THEN RingSize ELSE Capacity(dsp.ring)
\* the samples a callback writes to the ring with the settings it runs under
SamplesDue ==
  IF dsp.ring = "extender"
  THEN IF ~dsp.x.settings.enabled \/ dsp.x.settings.intensity <= 0 THEN 0 ELSE FrameSize
  ELSE IF dsp.x.settings.enabled /\ Uses(dsp.ring, dsp.x.settings.mode) THEN Quantum ELSE 0

(* C20: in each callback the write cursor of a ring advances, modulo the   *)
(* capacity, by the number of samples the callback writes to it, and every *)
(* read of the callback is at an index within [0, capacity) that trails    *)
(* the write cursor by the intended delay, which is below the capacity.    *)
C20_RingCursors ==
  [][dsp'.last = "process" =>
       /\ dsp'.written \in {0, SamplesDue}
       /\ IF dsp.ring = "extender"
          THEN /\ dsp'.x.inputPos = (dsp.x.inputPos + dsp'.written) % RingCapacity
               /\ dsp.x.initialized
                    => dsp'.x.outputPos = (dsp.x.outputPos + dsp'.written) % RingCapacity
               /\ dsp'.x.initialized => dsp'.x.outputPos = dsp'.x.inputPos
          ELSE dsp'.x.writePos = (dsp.x.writePos + dsp'.written) % RingCapacity
       /\ \A r \in dsp'.reads :
            /\ 0 <= r.idx /\ r.idx < RingCapacity
            /\ 0 <= r.delay /\ r.delay < RingCapacity
            /\ (r.write - r.idx) % RingCapacity = r.delay]_vars

\* the pinna ring after a callback that wrote a full block across the end of
\* the ring, with a comb read that wrapped to the top of the ring
C20_Witness ==
  /\ dsp.kind = "ring" /\ dsp.ring = "pinna" /\ dsp.last = "process"
  /\ dsp.written = Quantum /\ dsp.x.writePos < Quantum
  /\ \E r \in dsp.reads : r.idx > r.write /\ r.delay = PINNA_DELAY

(***************************************************************************)
(* The delay of the overlap-add path (C21), under SpecExtender.            *)
(***************************************************************************)
\* the latest output sample was summed from frames of an unbroken input
SteadyOverlapAdd ==
  /\ dsp.kind = "extender" /\ dsp.last = "process"
  /\ dsp.source = "spectral-extender.worklet.ts"
  /\ dsp.mainRun >= FFT_SIZE /\ dsp.written >= 2 * FFT_SIZE

(* C21 as stated: in the main path the output sample read while input      *)
(* sample t is written is built from input sample t - FFT_SIZE, and the    *)
(* output cursor equals the input cursor at every block boundary.          *)
C21_LagsOneFftLength ==
  /\ SteadyOverlapAdd
       => (dsp.output[Len(dsp.output)] # 0 <=> Delayed(dsp.x, FFT_SIZE) # 0)
  /\ (dsp.kind = "extender" /\ dsp.source = "spectral-extender.worklet.ts"
      /\ dsp.x.initialized) => dsp.x.outputPos = dsp.x.inputPos

(* C21 amended: the output sample is built from input sample               *)
(* t - (FFT_SIZE - 1); the cursors are equal at every block boundary.      *)
C21_LagsOneFftLengthLessOne ==
  /\ SteadyOverlapAdd
       => (dsp.output[Len(dsp.output)] # 0 <=> Delayed(dsp.x, FFT_SIZE - 1) # 0)
  /\ (dsp.kind = "extender" /\ dsp.source = "spectral-extender.worklet.ts"
      /\ dsp.x.initialized) => dsp.x.outputPos = dsp.x.inputPos

\* a sounding output sample whose input of FFT_SIZE samples earlier was silent
C21_Witness ==
  /\ SteadyOverlapAdd
  /\ dsp.output[Len(dsp.output)] # 0
  /\ Delayed(dsp.x, FFT_SIZE - 1) # 0 /\ Delayed(dsp.x, FFT_SIZE) = 0
  /\ dsp.x.outputPos = dsp.x.inputPos

(***************************************************************************)
(* The latency estimate against the stages (C22), under SpecLatency.       *)
(***************************************************************************)
\* FFT_SIZE of the source; the extender model above runs at FFT_SIZE 4
AnalysisWindowSamples == 1024

\* the analysis window of an extender holding the settings st: FFT_SIZE is a
\* readonly field and port.onmessage keeps no lowLatencyMode
AnalysisWindow(st) == AnalysisWindowSamples

\* the settings the extender holds once the message of a Config has arrived
ExtenderUnder(settings) ==
  SpectralExtenderOnMessage(SpectralExtenderDefaults,
                            SpectralExtenderMessage(settings, NewPipeline, 0))

\* what a pipeline holding the settings reports, in hundredths of a sample
ReportedSamples(settings, sampleRate) ==
  MsToSamples(calculateProcessingLatency(
                [NewPipeline EXCEPT !.audioContext = 1, !.settings = settings],
                sampleRate, 0), sampleRate)

\* the share of the extender in the estimate beyond its block of buffering
ExtenderShare(settings, sampleRate) ==
  ReportedSamples(settings, sampleRate)
  - ReportedSamples([settings EXCEPT !.frequencyExtension.enabled = FALSE], sampleRate)
  - 128 * 100

(* C22: for a Config with the extender enabled, the extender's share of    *)
(* the latency estimate is the analysis window the extender uses under     *)
(* that Config, and that window is shorter with lowLatencyMode than        *)
(* without.                                                                *)
C22_ExtenderTermIsItsWindow ==
  (/\ dsp.kind = "latency"
   /\ dsp.settings.hiResEnabled /\ dsp.settings.frequencyExtension.enabled)
  => /\ ExtenderShare(dsp.settings, dsp.sampleRate)
          = 100 * AnalysisWindow(ExtenderUnder(dsp.settings))
     /\ AnalysisWindow(ExtenderUnder([dsp.settings EXCEPT !.lowLatencyMode = TRUE]))
          < AnalysisWindow(ExtenderUnder([dsp.settings EXCEPT !.lowLatencyMode = FALSE]))

(***************************************************************************)
(* The one-pole filter states of the spatial processor in 'surround-71'    *)
(* and 'atmos'. The front channels run through processStereoWide above.    *)
(* The surround rings carry no samples here: what a read of the surround   *)
(* ring returns (a sample written earlier, or the initial zero) is an      *)
(* input of the block. uses is not in the source: it lists, for the last   *)
(* sample of a block, the filter states that were updated, in order, each  *)
(* with the call that updated it.                                          *)
(***************************************************************************)
NewSurround == [front |-> NewSpatial, surroundFilterState |-> <<0, 0, 0, 0>>]

\* applySurroundFilter: <<surroundFilterState, output>>
applySurroundFilter(y, sample, filterIdx, cutoffHz, sampleRate) ==
  LET output == OnePole(y[filterIdx + 1], sample, Alpha(cutoffHz, sampleRate))
  IN <<[y EXCEPT ![filterIdx + 1] = output], output>>

\* the filter states one sample of processStereoWide updates
StereoWideUses(x, left, right) ==
  LET side == TruncDiv(left - right, 2)
      panAmount == TruncDiv(TruncDiv(Tanh(side * 3) * x.settings.width
                                       * x.settings.hrtfIntensity, 800) * 3, 10)
  IN (IF panAmount > 0 THEN <<[state |-> <<"ild", 0>>, by |-> "applyILD left"]>>
      ELSE IF panAmount < 0 THEN <<[state |-> <<"ild", 1>>, by |-> "applyILD right"]>>
      ELSE <<>>)
     \o <<[state |-> <<"crossfeed", 0>>, by |-> "crossL"],
          [state |-> <<"crossfeed", 1>>, by |-> "crossR"]>>

\* the filters of processSurround, in the order of the source, as
\* <<filterIdx, cutoffHz, by>>
SurroundFilters ==
  <<<<0, 6000, "surroundL">>, <<1, 6000, "surroundR">>, <<2, 4000, "backL">>,
    <<3, 4000, "backR">>, <<0, 80, "lfe">>>>

\* the calls of applySurroundFilter of one sample, from the i-th on
RECURSIVE SurroundChain(_, _, _, _)
SurroundChain(y, signals, i, sampleRate) ==
  IF i > Len(SurroundFilters) THEN y
  ELSE SurroundChain(applySurroundFilter(y, signals[i], SurroundFilters[i][1],
                                         SurroundFilters[i][2], sampleRate)[1],
                     signals, i + 1, sampleRate)

\* processSurround as its filter states see it; sur and back are what the
\* reads of the surround ring return: <<processor, uses>>
processSurroundFilters(x, left, right, sur, back, sampleRate) ==
  LET front == processStereoWide(x.front, left, right, sampleRate)
      mono == TruncDiv(left + right, 2)
  IN <<[front |-> front[1],
        surroundFilterState |-> SurroundChain(x.surroundFilterState,
                                              <<sur, sur, back, back, mono>>, 1, sampleRate)],
       StereoWideUses(x.front, left, right)
       \o [i \in 1 .. Len(SurroundFilters) |->
             [state |-> <<"surround", SurroundFilters[i][1]>>, by |-> SurroundFilters[i][3]]]>>

\* the loop of process() over n samples: <<processor, uses of the last sample>>
RECURSIVE SurroundLoop(_, _, _, _, _, _, _, _)
SurroundLoop(x, left, right, sur, back, n, uses, sampleRate) ==
  IF n = 0 THEN <<x, uses>>
  ELSE LET mode == x.front.settings.mode
           r == IF mode \in {"surround-71", "atmos"}
                THEN processSurroundFilters(x, left, right, sur, back, sampleRate)
                ELSE IF mode = "stereo-wide"
                THEN <<[x EXCEPT !.front =
                          processStereoWide(x.front, left, right, sampleRate)[1]],
                       StereoWideUses(x.front, left, right)>>
                ELSE <<x, <<>> >>
       IN SurroundLoop(r[1], left, right, sur, back, n - 1, r[2], sampleRate)

\* process(); v is <<left, right>> or <<mono>>
SurroundProcess(x, v, sur, back, sampleRate) ==
  IF Len(v) = 1 \/ ~x.front.settings.enabled \/ x.front.settings.mode = "off"
  THEN <<x, <<>> >>
  ELSE SurroundLoop(x, v[1], v[2], sur, back, Quantum, <<>>, sampleRate)

SurroundInputs == {<<0, 0>>, <<FullScale, -500>>, <<500>>}
RingReturns == {0, FullScale}
SurroundConfigs ==
  {[GamingGpuSettings EXCEPT !.spatialAudio.mode = m] :
     m \in {"stereo-wide", "surround-71", "atmos"}}

InitSurround ==
  /\ Unplugged
  /\ dsp = [kind |-> "surround", x |-> NewSurround, sampleRate |-> 48000,
            uses |-> <<>>, last |-> "constructor", callbacks |-> 0, messages |-> 0]

SurroundOnMessage(c) ==
  /\ dsp.messages < MaxMessages
  /\ dsp' = [dsp EXCEPT !.x.front.settings =
                          SpatialOnMessage(@, SpatialMessage(c, NewPipeline, 0)),
                        !.messages = @ + 1, !.last = "onmessage"]
  /\ UNCHANGED pipeVars

SurroundCallback(v, sur, back) ==
  /\ dsp.callbacks < MaxQuanta
  /\ LET r == SurroundProcess(dsp.x, v, sur, back, dsp.sampleRate)
     IN dsp' = [dsp EXCEPT !.x = r[1], !.uses = r[2], !.last = "process",
                           !.callbacks = @ + 1]
  /\ UNCHANGED pipeVars

NextSurround ==
  \/ \E c \in SurroundConfigs : SurroundOnMessage(c)
  \/ \E v \in SurroundInputs, sur \in RingReturns, back \in RingReturns :
       SurroundCallback(v, sur, back)

SpecSurround == InitSurround /\ [][NextSurround]_vars

(* C23: within one processed sample no filter state is updated twice, so   *)
(* none is shared by two filters, in every virtualizer mode.               *)
C23_FilterStateHasOneFilter ==
  (dsp.kind = "surround" /\ dsp.last = "process")
  => \A i, j \in DOMAIN dsp.uses : dsp.uses[i].state = dsp.uses[j].state => i = j

(***************************************************************************)
(* The delays of the virtualizer in the two latency modes (C24), under     *)
(* SpecRings.                                                              *)
(***************************************************************************)
\* the delays a ring is read at under the settings, over the inputs, ascending
DelaysAscending(ring, settings) ==
  LET all == UNION {ReadDelays(ring, settings, v[1], v[2]) : v \in {w \in RingInputs : Len(w) = 2}}
  IN CHOOSE f \in [1 .. Cardinality(all) -> all] :
       \A i, j \in DOMAIN f : i < j => f[i] < f[j]

(* C24: for the settings a spatial ring runs under, the largest ITD delay, *)
(* each early-reflection delay and the surround and surround-back delays   *)
(* are strictly shorter with lowLatencyMode than without.                  *)
C24_DelaysShorterInLowLatency ==
  (/\ dsp.kind = "ring" /\ dsp.ring \in {"itd", "reflection", "surround"}
   /\ dsp.last = "process" /\ dsp.written = Quantum)
  => LET low == DelaysAscending(dsp.ring, [dsp.x.settings EXCEPT !.lowLatencyMode = TRUE])
         high == DelaysAscending(dsp.ring, [dsp.x.settings EXCEPT !.lowLatencyMode = FALSE])
     IN /\ Len(low) = Len(high)
        /\ IF dsp.ring = "itd" THEN low[Len(low)] < high[Len(high)]
           ELSE \A k \in DOMAIN low : low[k] < high[k]

(***************************************************************************)
(* UpsamplerProcessor (upsampler.worklet.ts, the interpolating processor), *)
(* one channel: the channels share nothing but the settings. Samples and   *)
(* coefficients are integers in 1/1000, positions are an integer index and *)
(* a fraction in 1/256. Blocks have the 128 frames of a render quantum.    *)
(***************************************************************************)
SINC_WINDOW_SIZE == 16
SINC_WINDOW_SIZE_FAST == 4
BUFFER_SIZE == 32
BlockFrames == 128

\* generateSincTable(16) and generateSincTable(4): the entries 0, 128, 256, ...,
\* the only ones a ratio of 2 addresses, as the source's formula gives them
sincTable ==
  <<0, -2, 0, 10, 0, -22, 0, 39, 0, -64, 0, 107, 0, -200, 0, 632,
    1000, 632, 0, -200, 0, 107, 0, -64, 0, 39, 0, -22, 0, 10, 0, -2>>
sincTableFast == <<0, -63, 0, 573, 1000, 573, 0, -63>>

\* table[tableIndex] ?? 0
Coefficient(table, tableIndex) ==
  IF tableIndex < 0 \/ tableIndex >= Len(table) * 128 THEN 0
  ELSE table[(tableIndex \div 128) + 1]

NewUpsampler ==
  [settings |-> UpsamplerDefaults, previousSamples |-> [i \in 1 .. BUFFER_SIZE |-> 0]]

\* the taps of sincInterpolate from the k-th on, summed
RECURSIVE SincTaps(_, _, _, _, _, _, _)
SincTaps(samples, index, fraction, bufferOffset, table, halfWindow, k) ==
  IF k >= halfWindow THEN 0
  ELSE LET sampleIndex == index + k + bufferOffset
           tableIndex == (k + halfWindow) * 256 - fraction
       IN (IF sampleIndex >= 0 /\ sampleIndex < Len(samples)
           THEN TruncDiv(samples[sampleIndex + 1] * Coefficient(table, tableIndex), 1000)
           ELSE 0)
          + SincTaps(samples, index, fraction, bufferOffset, table, halfWindow, k + 1)

sincInterpolate(settings, samples, index, fraction, bufferOffset) ==
  LET windowSize == IF settings.lowLatencyMode THEN SINC_WINDOW_SIZE_FAST
                    ELSE SINC_WINDOW_SIZE
      table == IF settings.lowLatencyMode THEN sincTableFast ELSE sincTable
  IN SincTaps(samples, index, fraction, bufferOffset, table, windowSize \div 2,
              -(windowSize \div 2))

linearInterpolate(samples, index, fraction) ==
  LET sample0 == IF index < Len(samples) THEN samples[index + 1] ELSE 0
      sample1 == IF index + 1 < Len(samples) THEN samples[index + 2] ELSE sample0
  IN sample0 + TruncDiv(fraction * (sample1 - sample0), 256)

\* process(): <<processor, output block>>
UpsamplerProcess(x, block, sampleRate) ==
  IF ~x.settings.enabled THEN <<x, block>>
  ELSE LET target == x.settings.targetSampleRate
           useSinc == x.settings.quality = "sinc" /\ ~x.settings.lowLatencyMode
           out == IF target <= sampleRate THEN block
                  ELSE [i \in 1 .. Len(block) |->
                          LET index == ((i - 1) * sampleRate) \div target
                              fraction == ((((i - 1) * sampleRate) % target) * 256) \div target
                          IN IF useSinc
                             THEN sincInterpolate(x.settings, block, index, fraction, 0)
                             ELSE linearInterpolate(block, index, fraction)]
           kept == [i \in 1 .. BUFFER_SIZE |-> block[Len(block) - BUFFER_SIZE + i]]
       IN <<[x EXCEPT !.previousSamples = kept], out>>

UpsamplerBlocks == {[i \in 1 .. BlockFrames |-> v] : v \in {0, 500, FullScale}}

UpsamplerConfigs ==
  {[MusicSettings EXCEPT !.upsampling.enabled = e, !.upsampling.quality = q,
                         !.upsampling.targetSampleRate = t, !.lowLatencyMode = l] :
     e \in BOOLEAN, q \in {"linear", "sinc"}, t \in {48000, 96000}, l \in BOOLEAN}

InitUpsampler ==
  /\ Unplugged
  /\ dsp = [kind |-> "upsampler", x |-> NewUpsampler, sampleRate |-> 48000,
            input |-> <<>>, output |-> <<>>, history |-> NewUpsampler.previousSamples,
            last |-> "constructor", callbacks |-> 0, messages |-> 0]

UpsamplerOnMessageArrives(c) ==
  /\ dsp.messages < MaxMessages
  /\ dsp' = [dsp EXCEPT !.x.settings =
                          [UpsamplerOnMessage(@, UpsamplerMessage(c, NewPipeline, 0))
                             EXCEPT !.seq = -1],
                        !.messages = @ + 1, !.last = "onmessage"]
  /\ UNCHANGED pipeVars

\* history is not in the source: the retained samples the block was processed with
UpsamplerCallback(block) ==
  /\ dsp.callbacks < MaxQuanta
  /\ LET r == UpsamplerProcess(dsp.x, block, dsp.sampleRate)
     IN dsp' = [dsp EXCEPT !.x = r[1], !.input = block, !.output = r[2],
                           !.history = dsp.x.previousSamples,
                           !.last = "process", !.callbacks = @ + 1]
  /\ UNCHANGED pipeVars

NextUpsampler ==
  \/ \E c \in UpsamplerConfigs : UpsamplerOnMessageArrives(c)
  \/ \E block \in UpsamplerBlocks : UpsamplerCallback(block)

SpecUpsampler == InitUpsampler /\ [][NextUpsampler]_vars

\* the sample at index j of the history followed by the block
HistoryThenBlock(j) ==
  IF j < 0 THEN dsp.history[BUFFER_SIZE + j + 1]
  ELSE IF j < Len(dsp.input) THEN dsp.input[j + 1] ELSE 0

\* the taps -N/2 .. N/2 - 1 of a window of N taps around position index + fraction
RECURSIVE WindowedSinc(_, _, _, _, _)
WindowedSinc(table, halfWindow, index, fraction, k) ==
  IF k >= halfWindow THEN 0
  ELSE TruncDiv(HistoryThenBlock(index + k)
                  * Coefficient(table, (k + halfWindow) * 256 - fraction), 1000)
       + WindowedSinc(table, halfWindow, index, fraction, k + 1)

(* C25: a block processed with the stage enabled, quality sinc and a       *)
(* target rate above the native rate has, at every output index i, the     *)
(* windowed-sinc sum of 16 taps (4 taps and the short table with           *)
(* lowLatencyMode) around i / ratio, over the retained history followed by *)
(* the block, and every table index of it lies inside the table.           *)
C25_SincOverHistory ==
  (/\ dsp.kind = "upsampler" /\ dsp.last = "process"
   /\ dsp.x.settings.enabled /\ dsp.x.settings.quality = "sinc"
   /\ dsp.x.settings.targetSampleRate > dsp.sampleRate)
  => LET low == dsp.x.settings.lowLatencyMode
         table == IF low THEN sincTableFast ELSE sincTable
         halfWindow == (IF low THEN SINC_WINDOW_SIZE_FAST ELSE SINC_WINDOW_SIZE) \div 2
         target == dsp.x.settings.targetSampleRate
     IN \A i \in 1 .. Len(dsp.output) :
          LET index == ((i - 1) * dsp.sampleRate) \div target
              fraction == ((((i - 1) * dsp.sampleRate) % target) * 256) \div target
          IN /\ dsp.output[i] = WindowedSinc(table, halfWindow, index, fraction, -halfWindow)
             /\ \A k \in (-halfWindow) .. (halfWindow - 1) :
                  /\ 0 <= (k + halfWindow) * 256 - fraction
                  /\ (k + halfWindow) * 256 - fraction < Len(table) * 128

(***************************************************************************)
(* applySBR with its loop. FFT_SIZE is 64 here (1024 in the source), which *)
(* leaves 8 to 11 destination bins at the rates of SAMPLE_RATE_OPTIONS. A  *)
(* bin is held as magnitude and phase, the form the loop computes in       *)
(* (Math.sqrt / Math.atan2 on the way in, Math.cos / Math.sin on the way   *)
(* out); the phase is in 1/100 of a turn, the unit of phaseOffset. The     *)
(* intensity of the settings is in 1/100, as in the messages above. reads  *)
(* is not in the source: the source bins the loop has read.                *)
(***************************************************************************)
SpectrumSize == 64
Bins == 0 .. (SpectrumSize - 1)

CutoffBin(sampleRate) == Min((15000 * SpectrumSize) \div sampleRate, SpectrumSize \div 2 - 1)
TargetBin(settings, sampleRate) ==
  Min((Min(20 * settings.maxFrequency, 9 * sampleRate) * SpectrumSize) \div (20 * sampleRate),
      SpectrumSize \div 2 - 1)
SrcStartBin(sampleRate) == (8000 * SpectrumSize) \div sampleRate

\* phaseOffset[i], in 1/100 of a turn
PhaseOffset(i) == (i * 137) % 100

\* the source bin without the wrap across the source band
SrcBinUnwrapped(destBin, cutoffBin, srcStartBin, srcWidth) ==
  srcStartBin + (destBin - cutoffBin - 1)

\* srcStartBin + ((destBin - cutoffBin - 1) % srcWidth)
SrcBin(destBin, cutoffBin, srcStartBin, srcWidth) ==
  srcStartBin + ((destBin - cutoffBin - 1) % srcWidth)

\* mag * atten with atten = (1 - ratio * 0.7) * (settings.intensity / 100)
Attenuated(mag, destBin, cutoffBin, targetBin, intensity) ==
  TruncDiv(TruncDiv(mag * (10 * (targetBin - cutoffBin) - 7 * (destBin - cutoffBin)),
                    10 * (targetBin - cutoffBin)) * intensity, 10000)

\* the loop from destBin on: <<spectrum, reads>>
RECURSIVE SBRLoop(_, _, _, _, _, _, _)
SBRLoop(c, reads, destBin, cutoffBin, targetBin, srcStartBin, intensity) ==
  IF destBin > targetBin THEN <<c, reads>>
  ELSE LET srcBin == SrcBin(destBin, cutoffBin, srcStartBin, cutoffBin - srcStartBin)
           newMag == Attenuated(c[srcBin].mag, destBin, cutoffBin, targetBin, intensity)
           newPhase == (c[srcBin].phase + PhaseOffset(destBin % (SpectrumSize \div 2))) % 100
           mirrorBin == SpectrumSize - destBin
           c1 == [c EXCEPT ![destBin] = [mag |-> newMag, phase |-> newPhase]]
           c2 == IF mirrorBin > 0 /\ mirrorBin < SpectrumSize
                 THEN [c1 EXCEPT ![mirrorBin] = [mag |-> newMag, phase |-> (100 - newPhase) % 100]]
                 ELSE c1
       IN SBRLoop(c2, reads \cup {srcBin}, destBin + 1, cutoffBin, targetBin, srcStartBin,
                  intensity)

\* applySBR(): <<spectrum, reads>>
applySBRBins(c, settings, sampleRate) ==
  LET cutoffBin == CutoffBin(sampleRate)
      targetBin == TargetBin(settings, sampleRate)
      srcStartBin == SrcStartBin(sampleRate)
  IN IF targetBin <= cutoffBin \/ cutoffBin - srcStartBin <= 0 THEN <<c, {}>>
     ELSE SBRLoop(c, {}, cutoffBin + 1, cutoffBin, targetBin, srcStartBin, settings.intensity)

(* SpecSBR: an extender receives Config messages and runs applySBR on the  *)
(* spectrum of a frame, at one of the rates of SAMPLE_RATE_OPTIONS.        *)
Spectra ==
  {[b \in Bins |-> [mag |-> 14000, phase |-> 0]],
   [b \in Bins |-> [mag |-> 1000 * (b % 7), phase |-> (3 * b) % 100]]}

SBRConfigs ==
  {[MusicSettings EXCEPT !.frequencyExtension.maxFrequency = f,
                         !.frequencyExtension.intensity = i] :
     f \in {20000, 24000, 32000}, i \in {0, 30, 100}}

InitSBR ==
  /\ Unplugged
  /\ \E r \in SAMPLE_RATE_OPTIONS :
       dsp = [kind |-> "sbr", settings |-> SpectralExtenderDefaults, sampleRate |-> r,
              before |-> [b \in Bins |-> [mag |-> 0, phase |-> 0]],
              after |-> [b \in Bins |-> [mag |-> 0, phase |-> 0]],
              reads |-> {}, last |-> "constructor", messages |-> 0]

SBROnMessage(c) ==
  /\ dsp.messages < MaxMessages
  /\ dsp' = [dsp EXCEPT !.settings = SpectralExtenderOnMessage(
                                        @, SpectralExtenderMessage(c, NewPipeline, 0)),
                        !.messages = @ + 1, !.last = "onmessage"]
  /\ UNCHANGED pipeVars

SBRFrame(c) ==
  /\ LET r == applySBRBins(c, dsp.settings, dsp.sampleRate)
     IN dsp' = [dsp EXCEPT !.before = c, !.after = r[1], !.reads = r[2], !.last = "applySBR"]
  /\ UNCHANGED pipeVars

NextSBR ==
  \/ \E c \in SBRConfigs : SBROnMessage(c)
  \/ \E c \in Spectra : SBRFrame(c)

SpecSBR == InitSBR /\ [][NextSBR]_vars

\* the destination bins of a pass under the settings the extender holds
DestBins ==
  IF CutoffBin(dsp.sampleRate) - SrcStartBin(dsp.sampleRate) <= 0 THEN {}
  ELSE (CutoffBin(dsp.sampleRate) + 1) .. TargetBin(dsp.settings, dsp.sampleRate)

(* C26: a pass of applySBR changes no bin but the destination bins above   *)
(* the cutoff bin up to the ceiling bin and their mirror bins, leaves      *)
(* every bin at or below the cutoff as it was, reads source bins only in   *)
(* [srcStartBin, cutoffBin), and leaves each mirror bin the complex        *)
(* conjugate of its destination bin.                                       *)
C26_PassTouchesOnlyDestAndMirror ==
  (dsp.kind = "sbr" /\ dsp.last = "applySBR")
  => /\ \A b \in Bins :
          dsp.after[b] # dsp.before[b]
            => b \in DestBins \cup {SpectrumSize - d : d \in DestBins}
     /\ \A b \in 0 .. CutoffBin(dsp.sampleRate) : dsp.after[b] = dsp.before[b]
     /\ \A b \in dsp.reads : SrcStartBin(dsp.sampleRate) <= b /\ b < CutoffBin(dsp.sampleRate)
     /\ \A d \in DestBins :
          /\ dsp.after[SpectrumSize - d].mag = dsp.after[d].mag
          /\ (dsp.after[SpectrumSize - d].phase + dsp.after[d].phase) % 100 = 0

\* a pass whose destination band is wider than the source band, so that the
\* mapping wrapped, and that changed a destination bin
C26_Witness ==
  /\ dsp.kind = "sbr" /\ dsp.last = "applySBR"
  /\ Cardinality(DestBins) > CutoffBin(dsp.sampleRate) - SrcStartBin(dsp.sampleRate)
  /\ \E d \in DestBins : dsp.after[d] # dsp.before[d] /\ dsp.after[d].mag > 0

(* C30: once a Config with extension intensity I has been delivered, a     *)
(* pass gives the destination bin at relative distance r from the cutoff   *)
(* the magnitude of its source bin times (1 - 0.7 * r) * (I / 100).        *)
C30_IntensityScaledOnce ==
  (dsp.kind = "sbr" /\ dsp.last = "applySBR" /\ dsp.messages > 0)
  => LET cutoffBin == CutoffBin(dsp.sampleRate)
         targetBin == TargetBin(dsp.settings, dsp.sampleRate)
         srcStartBin == SrcStartBin(dsp.sampleRate)
     IN \A d \in DestBins :
          dsp.after[d].mag
            = TruncDiv(TruncDiv(dsp.before[srcStartBin
                                           + ((d - cutoffBin - 1) % (cutoffBin - srcStartBin))].mag
                                  * (10 * (targetBin - cutoffBin) - 7 * (d - cutoffBin)),
                                10 * (targetBin - cutoffBin)) * dsp.settings.intensity, 100)


(***************************************************************************)
(* What getStatus reports as connected                                     *)
(***************************************************************************)
\* getStatus() is a synchronous call made from a task: it runs between the
\* continuations of connect and disconnect, never inside a microtask drain
GetStatusCanRun == TaskTurn

\* the fields a connected pipeline holds
HoldsChain(p) ==
  /\ p.currentElement # NoElement /\ p.audioContext # 0
  /\ p.sourceNode # NullNode /\ p.makeupGainNode # NullNode
  /\ p.gainNode # NullNode /\ p.analyserNode # NullNode

(* C27: at every point where getStatus can run, also while connect or      *)
(* disconnect is suspended at an await, isConnected implies that the       *)
(* element, the context, the source, the gain nodes and the analyser are   *)
(* held, that the context is open, and that the chain is wired from the    *)
(* source to the destination of the context.                               *)
C27_ConnectedMeansLiveChain ==
  (GetStatusCanRun /\ pl.isConnected)
    => /\ HoldsChain(pl)
       /\ ctxState[pl.audioContext] = "running"
       /\ Wired(pl)
       /\ Dest(pl.audioContext) \in ChainOf(pl.sourceNode)


(***************************************************************************)
(* The accelerator flag and the devices acquired                           *)
(***************************************************************************)
\* the Config of the latest updateSettings call asks for the accelerator
LatestConfigUsesGpu(p) == p.settings # NoSettings /\ p.settings.useGPU

\* the devices requestDevice() has returned and nobody has destroyed, other than
\* the one the pipeline references
StrayDevices == gpuAlive \ {pl.gpuDevice}

(* C28: in every reachable state gpuActive is true only if the most        *)
(* recently delivered Config has useGPU true and gpuDevice is non-null,    *)
(* and every device that was acquired is the one gpuDevice references or   *)
(* has been destroyed.                                                     *)
C28_ActiveOnlyWithOneDevice ==
  /\ pl.gpuActive => (LatestConfigUsesGpu(pl) /\ pl.gpuDevice # 0)
  /\ StrayDevices = {}


(***************************************************************************)
(* The stages the latency estimate counts against the stages that run      *)
(* (C29), under SpecLatency.                                               *)
(***************************************************************************)
\* the Config with the switch of stage k off
StageOff(settings, k) ==
  IF k = "ups" THEN [settings EXCEPT !.upsampling.enabled = FALSE]
  ELSE IF k = "ext" THEN [settings EXCEPT !.frequencyExtension.enabled = FALSE]
  ELSE [settings EXCEPT !.spatialAudio.enabled = FALSE]

\* the estimate counts stage k as active: the stage adds a block of buffering,
\* and its own delay term, to what the pipeline reports
CountedActive(k, settings, sampleRate) ==
  ReportedSamples(settings, sampleRate) - ReportedSamples(StageOff(settings, k), sampleRate)
    >= 128 * 100

\* the settings stage k holds once the message of a Config has arrived
StageUnder(k, settings) ==
  OnMessage(k, StageDefaults(k), StageMessage(k, settings, NewPipeline, 0))

\* SpatialProcessor.process copies its input when the mode is 'off'
BypassMode(k, st) == k = "spa" /\ st.mode = "off"

\* stage k processes under the Config: the flag it was sent is true and it is not
\* in a bypass mode
StageRuns(k, settings) ==
  StageUnder(k, settings).enabled /\ ~BypassMode(k, StageUnder(k, settings))

(* C29: for every Config, a stage is counted as active in the latency      *)
(* estimate (one block of buffering plus its own delay term) if and only   *)
(* if the enabled flag updateSettings sends to that stage for the same     *)
(* Config is true and the stage is not in a bypass mode.                   *)
C29_CountedIffStageRuns ==
  dsp.kind = "latency"
  => \A k \in StageKinds :
       CountedActive(k, dsp.settings, dsp.sampleRate) <=> StageRuns(k, dsp.settings)

=============================================================================
